---- MODULE Spec2Model ----

(***************************************************************************)
(* A model of libbf: the runtime (memory, the instruction primitive, the   *)
(* run-to-completion drivers and the step driver), the parser, and the     *)
(* simple, the regex and the Ook tokenizer.                                *)
(*                                                                         *)
(* Spec      : the runtime.  One program, memory policy, reader and writer *)
(*             are drawn in Init; a StepRunner is stepped on them, and     *)
(*             Runner::run and runtime::run are each called once on fresh  *)
(*             copies of the same inputs.                                  *)
(* SpecParse : the parser.  One token stream is drawn in InitParse, and    *)
(*             parse_str and parse_str_fat are each called once on it.     *)
(* SpecTok   : the simple tokenizer.  A token specification and a source   *)
(*             are drawn in InitTok, and next is called on the stream of   *)
(*             the tokenizer built from them.                              *)
(* SpecFat   : the parser and the runtime.  A token stream is parsed with  *)
(*             parse_str and with parse_str_fat, and both programs run.    *)
(* SpecOok   : Ook.  next is called on the OokTokenStream of a source, and *)
(*             the source is parsed.                                       *)
(* SpecRegex : the regex tokenizer.  from_str_spec is called on a          *)
(*             specification, and next on a stream of its tokenizer.       *)
(* SpecStreams : the calls of next of SpecTok, SpecRegex and SpecOok.      *)
(* SpecIndex : Program::step_index.  It is called once on a program and an *)
(*             index of one of its instructions.                           *)
(*                                                                         *)
(* Each specification moves its own variables and leaves the others at     *)
(* their initial values.                                                   *)
(***************************************************************************)
EXTENDS Integers, Sequences, FiniteSets, TLC

VARIABLES
    cfg,      \* the inputs of the runtime: program, memsize, input, output
    sr,       \* the StepRunner: [runtime, index]
    sres,     \* what the last StepRunner::step call returned
    hist,     \* the instruction that call executed and the StepRunner before it
    nsteps,   \* instructions the StepRunner has executed successfully
    runner,   \* Runner::run on cfg: not called yet, or its result
    legacy,   \* runtime::run_with_memsize on cfg: not called yet, or its result
    test_tokenizer,  \* the input of the parser: the tokens its stream yields
    parsed,     \* Parser::parse_str on test_tokenizer: not called yet, or its result
    parsed_fat, \* Parser::parse_str_fat on test_tokenizer, likewise
    token_spec, \* the SimpleTokenSpec the simple tokenizer is built from
    simple_stream,  \* the SimpleTokenStream
    emitted,    \* what the last call of next returned, and the stream before it
    run_plain,  \* Runner::run on the program of parse_str: not called, or its result
    run_fat,    \* Runner::run on parse_str_fat(..).as_program(), likewise
    live,       \* the token stream the behaviour calls next on: simple, regex, ook
    ook_stream, \* the OokTokenStream
    ook_emitted,      \* what next has returned on it, and the stream before the call
    regex_spec,       \* the (TokenType, pattern) pairs given to from_str_spec
    regex_tokenizer,  \* what from_str_spec returned: not called, Ok or Err
    regex_stream,     \* the RegexTokenStream, once token_stream has been called
    regex_emitted,    \* what next has returned on it, and the stream before the call
    index_call        \* a call of Program::step_index: its arguments and what it did

runtimeVars == <<cfg, sr, sres, hist, nsteps, runner, legacy>>
parserVars == <<test_tokenizer, parsed, parsed_fat>>
tokenizerVars == <<token_spec, simple_stream, emitted>>
fatVars == <<run_plain, run_fat>>
ookVars == <<ook_stream, ook_emitted>>
regexVars == <<regex_spec, regex_tokenizer, regex_stream, regex_emitted>>
streamVars == <<live, ookVars, regexVars>>
indexVars == <<index_call>>
vars == <<runtimeVars, parserVars, tokenizerVars, fatVars, streamVars, indexVars>>

(***************************************************************************)
(* Bounds of the model.                                                    *)
(***************************************************************************)
\* isize is 32 or 64 bits wide on the targets; the model keeps its
\* two's-complement wrapping at this width.
IsizeBits == 24
\* Programs of the generated family hold at most this many instructions,
\* nested ones included.
MaxSize == 3
\* The StepRunner is stepped until it has executed this many instructions.
MaxSteps == 20
\* Runner::run and runtime::run are followed for this many instructions;
\* a run that needs more is taken not to return.
MaxExec == 32
\* The token streams of the generated family hold at most this many tokens.
MaxTokens == 4
\* The sources of the generated family hold at most this many chars.
MaxSrcLen == 3
\* The longest Ook source, in words.
MaxOokWords == 4
\* The most (TokenType, pattern) pairs of a generated regex specification.
MaxPatterns == 2

IsizeMax == 2 ^ (IsizeBits - 1) - 1
IsizeMin == 0 - 2 ^ (IsizeBits - 1)

(***************************************************************************)
(* Option<T>.                                                              *)
(***************************************************************************)
None == [some |-> FALSE, v |-> <<>>]
Some(x) == [some |-> TRUE, v |-> x]

(***************************************************************************)
(* program::Instruction.  Every instruction is a record of one shape.      *)
(***************************************************************************)
PAdd(n) == [op |-> "PAdd", operand |-> n, sub |-> <<>>]
DAdd(n) == [op |-> "DAdd", operand |-> n, sub |-> <<>>]
Output == [op |-> "Output", operand |-> 0, sub |-> <<>>]
Input == [op |-> "Input", operand |-> 0, sub |-> <<>>]
UntilZero(body) == [op |-> "UntilZero", operand |-> 0, sub |-> body]
\* What indexing yields where the code panics.
PanicInst == [op |-> "Panic", operand |-> 0, sub |-> <<>>]

(***************************************************************************)
(* error::RuntimeError, and the outcomes that are not a RuntimeError.      *)
(***************************************************************************)
Ok == [tag |-> "Ok", address |-> 0]
OutOfMemoryBounds(a) == [tag |-> "OutOfMemoryBounds", address |-> a]
IoError == [tag |-> "IoError", address |-> 0]
Eof == [tag |-> "Eof", address |-> 0]
\* A panic (a failed assertion or index), which no caller can catch.
Panic == [tag |-> "Panic", address |-> 0]
\* The call has not returned within MaxExec instructions.
Pending == [tag |-> "Pending", address |-> 0]
\* No call has been made yet.
NotCalled == [tag |-> "NotCalled", address |-> 0]

(***************************************************************************)
(* Vec<u8>.  A vector is kept as its length and its non-zero cells, so a   *)
(* zero-filled vector of 30000 cells is a small value.                     *)
(***************************************************************************)
VecNew(len) == [len |-> len, nz |-> [i \in {} |-> 0]]
VecGet(v, i) == IF i \in DOMAIN v.nz THEN v.nz[i] ELSE 0
\* Mutant of VecSet: the write spills into the next cell.
VecSet_Spill(v, i, b) ==
    [len |-> v.len,
     nz |-> [j \in (IF b = 0 THEN DOMAIN v.nz \ {i, i + 1}
                               ELSE DOMAIN v.nz \cup {i, i + 1})
                |-> IF j \in {i, i + 1} THEN b ELSE v.nz[j]]]
VecSet(v, i, b) ==
    [len |-> v.len,
     nz |-> [j \in (IF b = 0 THEN DOMAIN v.nz \ {i} ELSE DOMAIN v.nz \cup {i})
                |-> IF j = i THEN b ELSE v.nz[j]]]
\* Vec::resize(n, 0): truncates, or extends with zeros.
VecResize(v, n) ==
    [len |-> n, nz |-> [j \in {k \in DOMAIN v.nz : k < n} |-> v.nz[j]]]

(***************************************************************************)
(* runtime::MemorySize and runtime::internal::Memory.                      *)
(***************************************************************************)
Fixed(len) == [kind |-> "Fixed", len |-> len]
RightInfinite == [kind |-> "RightInfinite", len |-> 0]
BothInfinite == [kind |-> "BothInfinite", len |-> 0]
DEFAULT_MEMSIZE == Fixed(30000)

\* Mutant of Memory_new: a Fixed memory holds one cell at least.
Memory_new_OneCell(size) ==
    [size |-> size,
     right_data |-> IF size.kind = "Fixed"
                    THEN VecNew(IF size.len = 0 THEN 1 ELSE size.len)
                    ELSE VecNew(0),
     left_data |-> VecNew(0)]

\* Memory::new
Memory_new(size) ==
    [size |-> size,
     right_data |-> IF size.kind = "Fixed" THEN VecNew(size.len) ELSE VecNew(0),
     left_data |-> VecNew(0)]

\* Mutant of get_mut: the upper bound of Fixed is tested with > for >=.
get_mut_OffByOne(memory, address) ==
    IF address >= 0 THEN
        IF address > memory.right_data.len THEN
            IF memory.size.kind = "Fixed" THEN
                [res |-> OutOfMemoryBounds(address), memory |-> memory,
                 side |-> "none", at |-> 0]
            ELSE
                [res |-> Ok,
                 memory |-> [memory EXCEPT
                                !.right_data = VecResize(@, address + 1)],
                 side |-> "right", at |-> address]
        ELSE
            [res |-> Ok, memory |-> memory, side |-> "right", at |-> address]
    ELSE IF memory.size.kind = "BothInfinite" THEN
        LET left_address == 0 - (address + 1) IN
        [res |-> Ok,
         memory |-> IF left_address >= memory.left_data.len
                    THEN [memory EXCEPT
                            !.left_data = VecResize(@, left_address + 1)]
                    ELSE memory,
         side |-> "left", at |-> left_address]
    ELSE
        [res |-> OutOfMemoryBounds(address), memory |-> memory,
         side |-> "none", at |-> 0]

\* Mutant of get_mut: the vector is resized before the policy is tested.
get_mut_GrowFirst(memory, address) ==
    IF address >= 0 THEN
        LET grown == IF address >= memory.right_data.len
                     THEN [memory EXCEPT
                            !.right_data = VecResize(@, address + 1)]
                     ELSE memory
        IN
        IF address >= memory.right_data.len /\ memory.size.kind = "Fixed"
        THEN [res |-> OutOfMemoryBounds(address), memory |-> grown,
              side |-> "none", at |-> 0]
        ELSE [res |-> Ok, memory |-> grown, side |-> "right", at |-> address]
    ELSE
        LET left_address == 0 - (address + 1)
            grown == IF left_address >= memory.left_data.len
                     THEN [memory EXCEPT
                            !.left_data = VecResize(@, left_address + 1)]
                     ELSE memory
        IN
        IF memory.size.kind = "BothInfinite"
        THEN [res |-> Ok, memory |-> grown, side |-> "left", at |-> left_address]
        ELSE [res |-> OutOfMemoryBounds(address), memory |-> grown,
              side |-> "none", at |-> 0]

\* Memory::get_mut: the outcome, the memory as the call leaves it, and on
\* success the place (vector and index) the returned reference points to.
get_mut(memory, address) ==
    IF address >= 0 THEN
        IF address >= memory.right_data.len THEN
            IF memory.size.kind = "Fixed" THEN
                [res |-> OutOfMemoryBounds(address), memory |-> memory,
                 side |-> "none", at |-> 0]
            ELSE
                [res |-> Ok,
                 memory |-> [memory EXCEPT
                                !.right_data = VecResize(@, address + 1)],
                 side |-> "right", at |-> address]
        ELSE
            [res |-> Ok, memory |-> memory, side |-> "right", at |-> address]
    ELSE IF memory.size.kind = "BothInfinite" THEN
        LET left_address == 0 - (address + 1) IN
        IF left_address >= memory.left_data.len THEN
            [res |-> Ok,
             memory |-> [memory EXCEPT
                            !.left_data = VecResize(@, left_address + 1)],
             side |-> "left", at |-> left_address]
        ELSE
            [res |-> Ok, memory |-> memory, side |-> "left", at |-> left_address]
    ELSE
        [res |-> OutOfMemoryBounds(address), memory |-> memory,
         side |-> "none", at |-> 0]

\* Reading and writing through the reference get_mut returned.
Deref(r) ==
    IF r.side = "right" THEN VecGet(r.memory.right_data, r.at)
    ELSE VecGet(r.memory.left_data, r.at)
Assign(r, b) ==
    IF r.side = "right"
    THEN [r.memory EXCEPT !.right_data = VecSet(@, r.at, b)]
    ELSE [r.memory EXCEPT !.left_data = VecSet(@, r.at, b)]

(***************************************************************************)
(* The byte streams.  A reader holds the bytes still to be read and        *)
(* whether the transport fails once they are read; a writer holds the      *)
(* bytes written and its capacity (-1: a Vec, which takes any number).     *)
(***************************************************************************)
Reader(data, broken) == [data |-> data, broken |-> broken]
Writer(cap) == [buf |-> <<>>, cap |-> cap]

\* Read::read into a one-byte buffer: Ok(1) with the byte, Ok(0) at the end
\* of the stream, or Err.
Read_read(input) ==
    IF input.data # <<>> THEN
        [res |-> Ok, n |-> 1, byte |-> Head(input.data),
         input |-> [input EXCEPT !.data = Tail(@)]]
    ELSE IF input.broken THEN [res |-> IoError, n |-> 0, byte |-> 0, input |-> input]
    ELSE [res |-> Ok, n |-> 0, byte |-> 0, input |-> input]

\* Read::read_exact into a one-byte buffer: the end of the stream is an
\* io::Error (UnexpectedEof) too.
Read_read_exact(input) ==
    IF input.data # <<>> THEN
        [res |-> Ok, n |-> 1, byte |-> Head(input.data),
         input |-> [input EXCEPT !.data = Tail(@)]]
    ELSE [res |-> IoError, n |-> 0, byte |-> 0, input |-> input]

\* Write::write_all of one byte.
Write_write_all(output, b) ==
    IF output.cap < 0 \/ Len(output.buf) < output.cap
    THEN [res |-> Ok, output |-> [output EXCEPT !.buf = Append(@, b)]]
    ELSE [res |-> IoError, output |-> output]

(***************************************************************************)
(* runtime::internal::Runtime.                                             *)
(***************************************************************************)
Runtime_new(input, output, memsize) ==
    [input |-> input, output |-> output, memory |-> Memory_new(memsize),
     pointer |-> 0]

\* isize::wrapping_add and the cast `as u8`.
wrapping_add(a, b) ==
    ((a + b + 2 ^ (IsizeBits - 1)) % (2 ^ IsizeBits)) - 2 ^ (IsizeBits - 1)
\* Mutant of as_u8: the cast saturates.
as_u8_Saturating(x) == IF x > 255 THEN 255 ELSE IF x < 0 THEN 0 ELSE x
as_u8(x) == x % 256

\* Mutant of add_pointer: the new pointer is bounds-checked at once.
add_pointer_Eager(rt, operand) ==
    LET r == get_mut(rt.memory, rt.pointer + operand) IN
    [rt |-> [rt EXCEPT !.pointer = @ + operand, !.memory = r.memory],
     res |-> r.res]

\* self.pointer += operand.  The programs of the model keep the sum inside
\* isize, where += is the sum of the integers.
add_pointer(rt, operand) ==
    [rt |-> [rt EXCEPT !.pointer = @ + operand], res |-> Ok]

add_data(rt, operand) ==
    LET r == get_mut(rt.memory, rt.pointer) IN
    IF r.res # Ok THEN [rt |-> [rt EXCEPT !.memory = r.memory], res |-> r.res]
    ELSE [rt |-> [rt EXCEPT !.memory =
                     Assign(r, as_u8(wrapping_add(Deref(r), operand)))],
          res |-> Ok]

input(rt) ==
    LET r == get_mut(rt.memory, rt.pointer) IN
    IF r.res # Ok THEN [rt |-> [rt EXCEPT !.memory = r.memory], res |-> r.res]
    ELSE
        LET rd == Read_read(rt.input) IN
        IF rd.res # Ok
        THEN [rt |-> [rt EXCEPT !.memory = r.memory, !.input = rd.input],
              res |-> rd.res]
        ELSE IF rd.n = 0
        THEN [rt |-> [rt EXCEPT !.memory = r.memory, !.input = rd.input],
              res |-> Eof]
        ELSE [rt |-> [rt EXCEPT !.memory = Assign(r, rd.byte),
                                !.input = rd.input],
              res |-> Ok]

output(rt) ==
    LET r == get_mut(rt.memory, rt.pointer) IN
    IF r.res # Ok THEN [rt |-> [rt EXCEPT !.memory = r.memory], res |-> r.res]
    ELSE
        LET w == Write_write_all(rt.output, Deref(r)) IN
        [rt |-> [rt EXCEPT !.memory = r.memory, !.output = w.output],
         res |-> w.res]

\* Runtime::exec_one: the runtime after the call, the outcome and, when the
\* outcome is Ok, the NextAction ("Next", or "StepIn" with the loop body).
exec_one(rt, inst) ==
    IF inst.op = "PAdd" THEN
        LET e == add_pointer(rt, inst.operand) IN
        [rt |-> e.rt, res |-> e.res, action |-> "Next", sub |-> <<>>]
    ELSE IF inst.op = "DAdd" THEN
        LET e == add_data(rt, inst.operand) IN
        [rt |-> e.rt, res |-> e.res, action |-> "Next", sub |-> <<>>]
    ELSE IF inst.op = "Output" THEN
        LET e == output(rt) IN
        [rt |-> e.rt, res |-> e.res, action |-> "Next", sub |-> <<>>]
    ELSE IF inst.op = "Input" THEN
        LET e == input(rt) IN
        [rt |-> e.rt, res |-> e.res, action |-> "Next", sub |-> <<>>]
    ELSE
        LET r == get_mut(rt.memory, rt.pointer) IN
        IF r.res # Ok THEN
            [rt |-> [rt EXCEPT !.memory = r.memory], res |-> r.res,
             action |-> "Next", sub |-> <<>>]
        ELSE IF Deref(r) # 0 THEN
            [rt |-> [rt EXCEPT !.memory = r.memory], res |-> Ok,
             action |-> "StepIn", sub |-> inst.sub]
        ELSE
            [rt |-> [rt EXCEPT !.memory = r.memory], res |-> Ok,
             action |-> "Next", sub |-> <<>>]

(***************************************************************************)
(* program::Program and program::ProgramIndex.  An index is the sequence   *)
(* of 0-based positions; a program is its sequence of instructions.        *)
(***************************************************************************)
first_index(program) ==
    IF program = <<>> THEN None ELSE Some(<<0>>)

\* Mutant of step_in: the index enters a loop body at its second
\* instruction.
step_in_Second(index) == Append(index, 1)

step_in(index) == Append(index, 0)

\* ProgramIndex::step_out: the index after the pop, and what is returned.
step_out(index) ==
    LET popped == IF index = <<>> THEN <<>> ELSE SubSeq(index, 1, Len(index) - 1)
    IN [index |-> popped, ret |-> popped # <<>>]

\* Program::next_index_internal: the index after the call and what is
\* returned; ret is "panic" where the code panics.
RECURSIVE next_index_internal(_, _)
next_index_internal(instructions, index) ==
    IF index = <<>> THEN [index |-> index, ret |-> "panic"]
    ELSE
        LET head == Head(index)
            tail == Tail(index)
        IN
        IF tail = <<>> THEN
            IF head + 1 < Len(instructions)
            THEN [index |-> <<head + 1>>, ret |-> "true"]
            ELSE [index |-> index, ret |-> "false"]
        ELSE IF head >= Len(instructions) THEN [index |-> index, ret |-> "panic"]
        ELSE IF instructions[head + 1].op = "UntilZero" THEN
            LET r == next_index_internal(instructions[head + 1].sub, tail)
            IN [index |-> <<head>> \o r.index, ret |-> r.ret]
        ELSE [index |-> index, ret |-> "panic"]

\* Mutant of step_index: behind the last instruction of a loop body the
\* index moves on to the sibling of the loop.
step_index_Outward(program, index) ==
    LET Upward(r) ==
            IF r.ret = "false" /\ Len(index) > 1
            THEN next_index_internal(program, SubSeq(index, 1, Len(index) - 1))
            ELSE r
    IN Upward(next_index_internal(program, index))

step_index(program, index) == next_index_internal(program, index)

\* program::instruction_at, which Program's Index implementation calls.
RECURSIVE instruction_at(_, _)
instruction_at(instructions, index) ==
    IF index = <<>> THEN PanicInst
    ELSE
        LET head == Head(index)
            tail == Tail(index)
        IN
        IF head >= Len(instructions) THEN PanicInst
        ELSE
            LET instruction == instructions[head + 1] IN
            IF tail = <<>> THEN instruction
            ELSE IF instruction.op = "UntilZero"
            THEN instruction_at(instruction.sub, tail)
            ELSE PanicInst

(***************************************************************************)
(* runtime::StepRunner.                                                    *)
(***************************************************************************)
StepRunner_with_memsize(program, in, out, memsize) ==
    [runtime |-> Runtime_new(in, out, memsize), index |-> first_index(program)]

is_running(s) == s.index.some

get_current_instruction(program, s) ==
    IF s.index.some THEN Some(instruction_at(program, s.index.v)) ELSE None

\* Mutant of AfterNext: at the end of a loop body the index moves past the
\* loop, which is not tested again.
RECURSIVE AfterNext_SkipRetest(_, _)
AfterNext_SkipRetest(program, index) ==
    LET si == step_index(program, index) IN
    IF si.ret = "true" THEN Some(si.index)
    ELSE
        LET so == step_out(si.index) IN
        IF so.ret THEN AfterNext_SkipRetest(program, so.index) ELSE None

\* Mutant of AfterNext: at the end of a loop body the index goes back to the
\* first instruction of the body, and the head of the loop is not tested.
AfterNext_BodyAgain(program, index) ==
    LET si == step_index(program, index) IN
    IF si.ret = "true" THEN Some(si.index)
    ELSE
        LET so == step_out(si.index) IN
        IF so.ret THEN Some(step_in(so.index)) ELSE None

\* The index StepRunner::step leaves after exec_one returned Ok(Next).
AfterNext(program, index) ==
    LET si == step_index(program, index) IN
    IF si.ret = "true" THEN Some(si.index)
    ELSE
        LET so == step_out(si.index) IN
        IF so.ret THEN Some(so.index) ELSE None

\* Mutant of AfterStepIn: the index steps in without the test of the body.
AfterStepIn_Always(index, sub) == Some(step_in(index))

\* The index StepRunner::step leaves after exec_one returned Ok(StepIn(sub)).
AfterStepIn(index, sub) ==
    IF sub # <<>> THEN Some(step_in(index)) ELSE Some(index)

\* Mutant of step: a failed instruction is skipped.
step_SkipFailed(program, s) ==
    IF s.index.some THEN
        LET inst == instruction_at(program, s.index.v) IN
        IF inst.op = "Panic" THEN [s |-> s, res |-> Panic]
        ELSE
            LET e == exec_one(s.runtime, inst) IN
            IF e.res # Ok
            THEN [s |-> [runtime |-> e.rt,
                         index |-> AfterNext(program, s.index.v)],
                  res |-> e.res]
            ELSE IF e.action = "Next" THEN
                IF step_index(program, s.index.v).ret = "panic"
                THEN [s |-> [s EXCEPT !.runtime = e.rt], res |-> Panic]
                ELSE [s |-> [runtime |-> e.rt,
                             index |-> AfterNext(program, s.index.v)],
                      res |-> Ok]
            ELSE [s |-> [runtime |-> e.rt,
                         index |-> AfterStepIn(s.index.v, e.sub)],
                  res |-> Ok]
    ELSE [s |-> s, res |-> Ok]

\* Mutant of step: a finished StepRunner starts the program again.
step_Restart(program, s) ==
    IF s.index.some THEN
        LET inst == instruction_at(program, s.index.v) IN
        IF inst.op = "Panic" THEN [s |-> s, res |-> Panic]
        ELSE
            LET e == exec_one(s.runtime, inst) IN
            IF e.res # Ok THEN [s |-> [s EXCEPT !.runtime = e.rt], res |-> e.res]
            ELSE IF e.action = "Next" THEN
                IF step_index(program, s.index.v).ret = "panic"
                THEN [s |-> [s EXCEPT !.runtime = e.rt], res |-> Panic]
                ELSE [s |-> [runtime |-> e.rt,
                             index |-> AfterNext(program, s.index.v)],
                      res |-> Ok]
            ELSE [s |-> [runtime |-> e.rt,
                         index |-> AfterStepIn(s.index.v, e.sub)],
                  res |-> Ok]
    ELSE [s |-> [s EXCEPT !.index = first_index(program)], res |-> Ok]

\* StepRunner::step: the StepRunner after the call and what is returned.
step(program, s) ==
    IF s.index.some THEN
        LET inst == instruction_at(program, s.index.v) IN
        IF inst.op = "Panic" THEN [s |-> s, res |-> Panic]
        ELSE
            LET e == exec_one(s.runtime, inst) IN
            IF e.res # Ok THEN [s |-> [s EXCEPT !.runtime = e.rt], res |-> e.res]
            ELSE IF e.action = "Next" THEN
                IF step_index(program, s.index.v).ret = "panic"
                THEN [s |-> [s EXCEPT !.runtime = e.rt], res |-> Panic]
                ELSE [s |-> [runtime |-> e.rt,
                             index |-> AfterNext(program, s.index.v)],
                      res |-> Ok]
            ELSE [s |-> [runtime |-> e.rt,
                         index |-> AfterStepIn(s.index.v, e.sub)],
                  res |-> Ok]
    ELSE [s |-> s, res |-> Ok]

(***************************************************************************)
(* runtime::Runner.  run_internal is followed for at most `fuel`           *)
(* instructions; i is the position of the for loop.                        *)
(***************************************************************************)
\* Mutant of run_internal: the error of a loop body ends the loop, and the
\* run goes on behind it.
RECURSIVE run_internal_DropBodyError(_, _, _, _)
run_internal_DropBodyError(rt, instructions, i, fuel) ==
    IF i >= Len(instructions) THEN [rt |-> rt, res |-> Ok, fuel |-> fuel]
    ELSE IF fuel = 0 THEN [rt |-> rt, res |-> Pending, fuel |-> 0]
    ELSE
        LET e == exec_one(rt, instructions[i + 1]) IN
        IF e.res # Ok THEN [rt |-> e.rt, res |-> e.res, fuel |-> fuel - 1]
        ELSE IF e.action = "StepIn" THEN
            LET b == run_internal_DropBodyError(e.rt, e.sub, 0, fuel - 1) IN
            IF b.res = Pending THEN b
            ELSE IF b.res # Ok
            THEN run_internal_DropBodyError(b.rt, instructions, i + 1, b.fuel)
            ELSE run_internal_DropBodyError(b.rt, instructions, i, b.fuel)
        ELSE run_internal_DropBodyError(e.rt, instructions, i + 1, fuel - 1)

\* Runner::run_internal
RECURSIVE run_internal(_, _, _, _)
run_internal(rt, instructions, i, fuel) ==
    IF i >= Len(instructions) THEN [rt |-> rt, res |-> Ok, fuel |-> fuel]
    ELSE IF fuel = 0 THEN [rt |-> rt, res |-> Pending, fuel |-> 0]
    ELSE
        LET e == exec_one(rt, instructions[i + 1]) IN
        IF e.res # Ok THEN [rt |-> e.rt, res |-> e.res, fuel |-> fuel - 1]
        ELSE IF e.action = "StepIn" THEN
            LET b == run_internal(e.rt, e.sub, 0, fuel - 1) IN
            IF b.res # Ok THEN b
            ELSE run_internal(b.rt, instructions, i, b.fuel)
        ELSE run_internal(e.rt, instructions, i + 1, fuel - 1)

Runner_with_memsize(program, in, out, memsize) ==
    [program |-> program, runtime |-> Runtime_new(in, out, memsize)]

Runner_run(r) == run_internal(r.runtime, r.program, 0, MaxExec)

(***************************************************************************)
(* runtime::run and runtime::run_with_memsize, with the Runtime of         *)
(* runtime/mod.rs.  Its Memory, add_pointer, add_data and output are the   *)
(* same text as those of runtime/internal.rs and are not repeated.         *)
(***************************************************************************)
mod_input(rt) ==
    LET r == get_mut(rt.memory, rt.pointer) IN
    IF r.res # Ok THEN [rt |-> [rt EXCEPT !.memory = r.memory], res |-> r.res]
    ELSE
        LET rd == Read_read_exact(rt.input) IN
        IF rd.res # Ok
        THEN [rt |-> [rt EXCEPT !.memory = r.memory, !.input = rd.input],
              res |-> rd.res]
        ELSE [rt |-> [rt EXCEPT !.memory = Assign(r, rd.byte),
                                !.input = rd.input],
              res |-> Ok]

\* Runtime::run of runtime/mod.rs; i is the position of the for loop.
RECURSIVE mod_run(_, _, _, _)
mod_run(rt, program, i, fuel) ==
    IF i >= Len(program) THEN [rt |-> rt, res |-> Ok, fuel |-> fuel]
    ELSE IF fuel = 0 THEN [rt |-> rt, res |-> Pending, fuel |-> 0]
    ELSE
        LET inst == program[i + 1] IN
        IF inst.op = "UntilZero" THEN
            LET r == get_mut(rt.memory, rt.pointer)
                rt1 == [rt EXCEPT !.memory = r.memory]
            IN
            IF r.res # Ok THEN [rt |-> rt1, res |-> r.res, fuel |-> fuel - 1]
            ELSE IF Deref(r) # 0 THEN
                LET b == mod_run(rt1, inst.sub, 0, fuel - 1) IN
                IF b.res # Ok THEN b
                ELSE mod_run(b.rt, program, i, b.fuel)
            ELSE mod_run(rt1, program, i + 1, fuel - 1)
        ELSE
            LET e == IF inst.op = "PAdd" THEN add_pointer(rt, inst.operand)
                     ELSE IF inst.op = "DAdd" THEN add_data(rt, inst.operand)
                     ELSE IF inst.op = "Output" THEN output(rt)
                     ELSE mod_input(rt)
            IN
            IF e.res # Ok THEN [rt |-> e.rt, res |-> e.res, fuel |-> fuel - 1]
            ELSE mod_run(e.rt, program, i + 1, fuel - 1)

run_with_memsize(program, in, out, memsize) ==
    mod_run(Runtime_new(in, out, memsize), program, 0, MaxExec)

run(program, in, out) == run_with_memsize(program, in, out, DEFAULT_MEMSIZE)

(***************************************************************************)
(* token::TokenType, token::Token and token::TokenInfo.  A string is the   *)
(* sequence of its chars, a char its Unicode scalar value.                 *)
(***************************************************************************)
TokenType ==
    {"PInc", "PDec", "DInc", "DDec", "Output", "Input", "LoopHead", "LoopTail"}

Token(tt, str) == [some |-> TRUE, token_type |-> tt, token_str |-> str]
\* The None of Option<Token>: the end of the stream.
NoToken == [some |-> FALSE, token_type |-> "None", token_str |-> <<>>]

TokenInfo(token, pos) == [token |-> token, pos_in_chars |-> pos]

\* TokenInfo::token_type, an Option<TokenType>: "None" at the end of the stream.
token_type(info) == IF info.token.some THEN info.token.token_type ELSE "None"

(***************************************************************************)
(* error::ParseError, and the outcomes that are not a ParseError.          *)
(***************************************************************************)
ParseOk == [tag |-> "Ok", pos_in_chars |-> 0]
UnexpectedEndOfLoop(pos) == [tag |-> "UnexpectedEndOfLoop", pos_in_chars |-> pos]
UnexpectedEndOfFile(pos) == [tag |-> "UnexpectedEndOfFile", pos_in_chars |-> pos]
\* A failed assert! or an unreachable!.
ParsePanic == [tag |-> "Panic", pos_in_chars |-> 0]
ParseNotCalled == [tag |-> "NotCalled", pos_in_chars |-> 0]

(***************************************************************************)
(* str and String.  A string is the sequence of its chars; its bytes are   *)
(* the UTF-8 encodings of the chars, and the stream's cursor counts bytes. *)
(***************************************************************************)
\* char::len_utf8
len_utf8(c) ==
    IF c < 128 THEN 1 ELSE IF c < 2048 THEN 2 ELSE IF c < 65536 THEN 3 ELSE 4

\* str::len: the length in bytes.
RECURSIVE str_len(_)
str_len(s) == IF s = <<>> THEN 0 ELSE len_utf8(Head(s)) + str_len(Tail(s))

\* The chars that lie before byte offset pos of s.  An offset that is not a
\* char boundary, where slicing panics, has no value here.
chars_before(s, pos) == CHOOSE k \in 0..Len(s) : str_len(SubSeq(s, 1, k)) = pos

\* &s[from..] and &s[from..to]
str_from(s, from) == SubSeq(s, chars_before(s, from) + 1, Len(s))
str_slice(s, from, to) == SubSeq(s, chars_before(s, from) + 1, chars_before(s, to))

\* str::starts_with
starts_with(s, prefix) ==
    Len(prefix) <= Len(s) /\ SubSeq(s, 1, Len(prefix)) = prefix

\* str::char_indices: the byte offset of each char.
char_indices(s) == [k \in 1..Len(s) |-> str_len(SubSeq(s, 1, k - 1))]

(***************************************************************************)
(* predefined::ook: OokTokenizer and OokTokenStream.                       *)
(***************************************************************************)
\* ParseError::MiscError.  ook.rs writes it as a tuple variant and
\* error/mod.rs declares it with named fields; the two fields are the same.
MiscError(pos, message) ==
    [tag |-> "MiscError", pos_in_chars |-> pos, message |-> message]

COMMON_TOKEN_PART == <<79, 111, 107>>

OokTokenInfo(tt, pos, pos_in_chars) ==
    [token_type |-> tt, pos |-> pos, pos_in_chars |-> pos_in_chars]

OokTokenStream_new(source) == [source |-> source, pos |-> 0, pos_in_chars |-> 0]

\* str::strip_prefix
strip_prefix(s, prefix) ==
    IF starts_with(s, prefix) THEN Some(SubSeq(s, Len(prefix) + 1, Len(s)))
    ELSE None

\* The match of next_ook_token on the char behind "Ook": . ? ! or none.
OokTokenType(s) ==
    IF s = <<>> THEN None
    ELSE CASE Head(s) = 46 -> Some("Dot")
           [] Head(s) = 63 -> Some("Question")
           [] Head(s) = 33 -> Some("Exclamation")
           [] OTHER -> None

\* The for loop of next_ook_token over the char indices not yet visited, and
\* what follows the loop.
RECURSIVE next_ook_token_loop(_, _, _)
next_ook_token_loop(stream, indices, rel_pos_in_chars) ==
    IF indices = <<>>
    THEN LET end == [stream EXCEPT !.pos = str_len(stream.source),
                                   !.pos_in_chars = @ + rel_pos_in_chars]
         IN [stream |-> end,
             info |-> OokTokenInfo(None, end.pos, end.pos_in_chars)]
    ELSE LET rel_pos == Head(indices)
             src_head == str_from(stream.source, stream.pos + rel_pos)
             s == strip_prefix(src_head, COMMON_TOKEN_PART)
             tt == IF s.some THEN OokTokenType(s.v) ELSE None
         IN IF tt.some
            THEN [stream |->
                    [stream EXCEPT
                        !.pos = @ + rel_pos + str_len(COMMON_TOKEN_PART) + 1,
                        !.pos_in_chars =
                            @ + rel_pos_in_chars + str_len(COMMON_TOKEN_PART) + 1],
                  info |-> OokTokenInfo(tt, stream.pos + rel_pos,
                                        stream.pos_in_chars + rel_pos_in_chars)]
            ELSE next_ook_token_loop(stream, Tail(indices), rel_pos_in_chars + 1)

next_ook_token(stream) ==
    next_ook_token_loop(stream,
                        char_indices(str_from(stream.source, stream.pos)), 0)

\* Mutant of OokPair: "Ook? Ook?" is a token like the other pairs.
OokPair_NoBadPair(first_token_type, second_token_type) ==
    CASE first_token_type = "Dot" /\ second_token_type = "Question" -> Some("PInc")
      [] first_token_type = "Question" /\ second_token_type = "Dot" -> Some("PDec")
      [] first_token_type = "Dot" /\ second_token_type = "Dot" -> Some("DInc")
      [] first_token_type = "Exclamation" /\ second_token_type = "Exclamation"
            -> Some("DDec")
      [] first_token_type = "Exclamation" /\ second_token_type = "Dot"
            -> Some("Output")
      [] first_token_type = "Dot" /\ second_token_type = "Exclamation"
            -> Some("Input")
      [] first_token_type = "Exclamation" /\ second_token_type = "Question"
            -> Some("LoopHead")
      [] OTHER -> Some("LoopTail")

\* The match of next on the pair of Ook tokens; None for (Question, Question).
OokPair(first_token_type, second_token_type) ==
    CASE first_token_type = "Dot" /\ second_token_type = "Question" -> Some("PInc")
      [] first_token_type = "Question" /\ second_token_type = "Dot" -> Some("PDec")
      [] first_token_type = "Dot" /\ second_token_type = "Dot" -> Some("DInc")
      [] first_token_type = "Exclamation" /\ second_token_type = "Exclamation"
            -> Some("DDec")
      [] first_token_type = "Exclamation" /\ second_token_type = "Dot"
            -> Some("Output")
      [] first_token_type = "Dot" /\ second_token_type = "Exclamation"
            -> Some("Input")
      [] first_token_type = "Exclamation" /\ second_token_type = "Question"
            -> Some("LoopHead")
      [] first_token_type = "Question" /\ second_token_type = "Exclamation"
            -> Some("LoopTail")
      [] OTHER -> None

\* Mutant of OokTokenStream_next: a lone last Ook token is the end of the
\* stream.
OokTokenStream_next_LoneIsEnd(stream) ==
    LET Pair(first, second, tt) ==
            IF ~tt.some
            THEN [stream |-> second.stream,
                  res |-> MiscError(first.info.pos_in_chars,
                                    "Ook? Ook?: bad Ook sequence"),
                  info |-> TokenInfo(NoToken, 0)]
            ELSE [stream |-> second.stream, res |-> ParseOk,
                  info |->
                     TokenInfo(
                         Token(tt.v,
                               str_slice(stream.source, first.info.pos,
                                         second.info.pos
                                             + str_len(COMMON_TOKEN_PART) + 1)),
                         first.info.pos_in_chars)]
        Second(first, second) ==
            IF ~second.info.token_type.some
            THEN [stream |-> second.stream, res |-> ParseOk,
                  info |-> TokenInfo(NoToken, second.info.pos_in_chars)]
            ELSE Pair(first, second,
                      OokPair(first.info.token_type.v, second.info.token_type.v))
        First(first) ==
            IF ~first.info.token_type.some
            THEN [stream |-> first.stream, res |-> ParseOk,
                  info |-> TokenInfo(NoToken, first.info.pos_in_chars)]
            ELSE Second(first, next_ook_token(first.stream))
    IN First(next_ook_token(stream))

\* OokTokenStream::next: the stream after the call, Ok or the ParseError, and
\* the TokenInfo of an Ok.  First, Second and Pair are the function from each
\* of its let bindings on: first, second and the token type of the pair.
OokTokenStream_next(stream) ==
    LET Pair(first, second, tt) ==
            IF ~tt.some
            THEN [stream |-> second.stream,
                  res |-> MiscError(first.info.pos_in_chars,
                                    "Ook? Ook?: bad Ook sequence"),
                  info |-> TokenInfo(NoToken, 0)]
            ELSE [stream |-> second.stream, res |-> ParseOk,
                  info |->
                     TokenInfo(
                         Token(tt.v,
                               str_slice(stream.source, first.info.pos,
                                         second.info.pos
                                             + str_len(COMMON_TOKEN_PART) + 1)),
                         first.info.pos_in_chars)]
        Second(first, second) ==
            IF ~second.info.token_type.some
            THEN [stream |-> second.stream,
                  res |-> MiscError(second.info.pos_in_chars,
                                    "Odd number of Ook tokens"),
                  info |-> TokenInfo(NoToken, 0)]
            ELSE Pair(first, second,
                      OokPair(first.info.token_type.v, second.info.token_type.v))
        First(first) ==
            IF ~first.info.token_type.some
            THEN [stream |-> first.stream, res |-> ParseOk,
                  info |-> TokenInfo(NoToken, first.info.pos_in_chars)]
            ELSE Second(first, next_ook_token(first.stream))
    IN First(next_ook_token(stream))

(***************************************************************************)
(* token::simple: SimpleTokenSpec, SimpleTokenDef, SimpleTokenizer.        *)
(***************************************************************************)
\* usize::MAX, at the width the model gives isize.
UsizeMax == 2 ^ IsizeBits - 1

SimpleTokenDef_new(token, tt) ==
    [token |-> token, char_count |-> Len(token), token_type |-> tt]

\* The key to_tokenizer sorts by.
sort_key(def) == UsizeMax - def.char_count

\* slice::sort_by_key, a stable sort: an element goes behind every element
\* before it whose key is not greater.
RECURSIVE sort_by_key(_)
sort_by_key(v) ==
    IF v = <<>> THEN <<>>
    ELSE LET sorted == sort_by_key(SubSeq(v, 1, Len(v) - 1))
             x == v[Len(v)]
             n == Cardinality({i \in DOMAIN sorted :
                                  sort_key(sorted[i]) <= sort_key(x)})
         IN SubSeq(sorted, 1, n) \o <<x>> \o SubSeq(sorted, n + 1, Len(sorted))

\* Mutant of to_tokenizer: the table is left in the order of construction.
to_tokenizer_Unsorted(spec) ==
    [token_table |->
        <<SimpleTokenDef_new(spec.ptr_inc, "PInc"),
          SimpleTokenDef_new(spec.ptr_dec, "PDec"),
          SimpleTokenDef_new(spec.data_inc, "DInc"),
          SimpleTokenDef_new(spec.data_dec, "DDec"),
          SimpleTokenDef_new(spec.output, "Output"),
          SimpleTokenDef_new(spec.input, "Input"),
          SimpleTokenDef_new(spec.loop_head, "LoopHead"),
          SimpleTokenDef_new(spec.loop_tail, "LoopTail")>>]

to_tokenizer(spec) ==
    [token_table |->
        sort_by_key(
            <<SimpleTokenDef_new(spec.ptr_inc, "PInc"),
              SimpleTokenDef_new(spec.ptr_dec, "PDec"),
              SimpleTokenDef_new(spec.data_inc, "DInc"),
              SimpleTokenDef_new(spec.data_dec, "DDec"),
              SimpleTokenDef_new(spec.output, "Output"),
              SimpleTokenDef_new(spec.input, "Input"),
              SimpleTokenDef_new(spec.loop_head, "LoopHead"),
              SimpleTokenDef_new(spec.loop_tail, "LoopTail")>>)]

(***************************************************************************)
(* token::simple::SimpleTokenStream.                                       *)
(***************************************************************************)
SimpleTokenStream_new(source, token_table) ==
    [token_table |-> token_table, source |-> source, pos |-> 0,
     pos_in_chars |-> 0]

\* SimpleTokenizer::token_stream
SimpleTokenizer_token_stream(simple_tokenizer, source) ==
    SimpleTokenStream_new(source, simple_tokenizer.token_table)

\* The first definition of the table that source[pos..] starts with.
find_token_at(source, pos, token_table) ==
    LET src_head == str_from(source, pos)
        found == {i \in DOMAIN token_table :
                     starts_with(src_head, token_table[i].token)}
    IN IF found = {} THEN None
       ELSE Some(token_table[CHOOSE i \in found : \A j \in found : i <= j])

\* Mutant of next_loop: the token's position is counted in bytes.
RECURSIVE next_loop_BytePos(_, _, _)
next_loop_BytePos(stream, indices, rel_pos_in_chars) ==
    IF indices = <<>>
    THEN [stream |-> [stream EXCEPT !.pos = str_len(stream.source),
                                    !.pos_in_chars = @ + rel_pos_in_chars],
          info |-> TokenInfo(NoToken, stream.pos_in_chars + rel_pos_in_chars)]
    ELSE LET pos == stream.pos + Head(indices)
             def == find_token_at(stream.source, pos, stream.token_table)
         IN IF def.some
            THEN [stream |->
                    [stream EXCEPT
                        !.pos = pos + str_len(def.v.token),
                        !.pos_in_chars = @ + rel_pos_in_chars + def.v.char_count],
                  info |->
                    TokenInfo(
                        Token(def.v.token_type,
                              str_slice(stream.source, pos,
                                        pos + str_len(def.v.token))),
                        stream.pos_in_chars + Head(indices))]
            ELSE next_loop_BytePos(stream, Tail(indices), rel_pos_in_chars + 1)

\* Mutant of next_loop: the token is placed at the char cursor the call
\* started from.
RECURSIVE next_loop_EntryCursor(_, _, _)
next_loop_EntryCursor(stream, indices, rel_pos_in_chars) ==
    IF indices = <<>>
    THEN [stream |-> [stream EXCEPT !.pos = str_len(stream.source),
                                    !.pos_in_chars = @ + rel_pos_in_chars],
          info |-> TokenInfo(NoToken, stream.pos_in_chars + rel_pos_in_chars)]
    ELSE LET pos == stream.pos + Head(indices)
             def == find_token_at(stream.source, pos, stream.token_table)
         IN IF def.some
            THEN [stream |->
                    [stream EXCEPT
                        !.pos = pos + str_len(def.v.token),
                        !.pos_in_chars = @ + rel_pos_in_chars + def.v.char_count],
                  info |->
                    TokenInfo(
                        Token(def.v.token_type,
                              str_slice(stream.source, pos,
                                        pos + str_len(def.v.token))),
                        stream.pos_in_chars)]
            ELSE next_loop_EntryCursor(stream, Tail(indices), rel_pos_in_chars + 1)

\* Mutant of next_loop: at the end of the source the byte cursor stays
\* where the call found it.
RECURSIVE next_loop_EndStays(_, _, _)
next_loop_EndStays(stream, indices, rel_pos_in_chars) ==
    IF indices = <<>>
    THEN [stream |-> [stream EXCEPT !.pos_in_chars = @ + rel_pos_in_chars],
          info |-> TokenInfo(NoToken, stream.pos_in_chars + rel_pos_in_chars)]
    ELSE LET pos == stream.pos + Head(indices)
             def == find_token_at(stream.source, pos, stream.token_table)
         IN IF def.some
            THEN [stream |->
                    [stream EXCEPT
                        !.pos = pos + str_len(def.v.token),
                        !.pos_in_chars = @ + rel_pos_in_chars + def.v.char_count],
                  info |->
                    TokenInfo(
                        Token(def.v.token_type,
                              str_slice(stream.source, pos,
                                        pos + str_len(def.v.token))),
                        stream.pos_in_chars + rel_pos_in_chars)]
            ELSE next_loop_EndStays(stream, Tail(indices), rel_pos_in_chars + 1)

\* The for loop of next over the char indices not yet visited, and what
\* follows the loop.
RECURSIVE next_loop(_, _, _)
next_loop(stream, indices, rel_pos_in_chars) ==
    IF indices = <<>>
    THEN [stream |-> [stream EXCEPT !.pos = str_len(stream.source),
                                    !.pos_in_chars = @ + rel_pos_in_chars],
          info |-> TokenInfo(NoToken, stream.pos_in_chars + rel_pos_in_chars)]
    ELSE LET pos == stream.pos + Head(indices)
             def == find_token_at(stream.source, pos, stream.token_table)
         IN IF def.some
            THEN [stream |->
                    [stream EXCEPT
                        !.pos = pos + str_len(def.v.token),
                        !.pos_in_chars = @ + rel_pos_in_chars + def.v.char_count],
                  info |->
                    TokenInfo(
                        Token(def.v.token_type,
                              str_slice(stream.source, pos,
                                        pos + str_len(def.v.token))),
                        stream.pos_in_chars + rel_pos_in_chars)]
            ELSE next_loop(stream, Tail(indices), rel_pos_in_chars + 1)

\* SimpleTokenStream::next; it returns Ok always.
SimpleTokenStream_next(stream) ==
    next_loop(stream, char_indices(str_from(stream.source, stream.pos)), 0)

(***************************************************************************)
(* The token stream the parser reads: the tokens of a tokenizer in order,  *)
(* then the end of the stream at last_pos_in_chars, again and again.       *)
(***************************************************************************)
TestTokenizer(tokens, last) == [tokens |-> tokens, last_pos_in_chars |-> last]

token_stream(tokenizer) ==
    [tokens |-> tokenizer.tokens, last_pos_in_chars |-> tokenizer.last_pos_in_chars]

TestStream_next(stream) ==
    IF stream.tokens # <<>>
    THEN [stream |-> [stream EXCEPT !.tokens = Tail(stream.tokens)],
          info |-> Head(stream.tokens)]
    ELSE [stream |-> stream,
          info |-> TokenInfo(NoToken, stream.last_pos_in_chars)]

\* TokenStream::next of the stream the parser was given: a TestStream (it
\* holds tokens), a SimpleTokenStream (it holds a token table) or an
\* OokTokenStream (it holds a source only).  res is Ok or the ParseError.
TokenStream_next(stream) ==
    LET Yield(n) == [stream |-> n.stream, res |-> ParseOk, info |-> n.info]
    IN IF "tokens" \in DOMAIN stream
       THEN Yield(TestStream_next(stream))
       ELSE IF "token_table" \in DOMAIN stream
       THEN Yield(SimpleTokenStream_next(stream))
       ELSE OokTokenStream_next(stream)

(***************************************************************************)
(* parser::ParseContext: the stream and the one-token unget buffer.        *)
(***************************************************************************)
ParseContext_new(stream) == [token_stream |-> stream, unget_buf |-> None]

next_token_info(context) ==
    LET Read(n) ==
            [context |-> [context EXCEPT !.token_stream = n.stream],
             res |-> n.res, info |-> n.info]
    IN IF context.unget_buf.some
       THEN [context |-> [context EXCEPT !.unget_buf = None],
             res |-> ParseOk, info |-> context.unget_buf.v]
       ELSE Read(TokenStream_next(context.token_stream))

\* panic is TRUE where assert!(self.unget_buf.is_none()) fails.
unget_token_info(context, info) ==
    IF context.unget_buf.some
    THEN [context |-> context, panic |-> TRUE]
    ELSE [context |-> [context EXCEPT !.unget_buf = Some(info)], panic |-> FALSE]

(***************************************************************************)
(* Parser::parse_str.  A parse returns [res, instructions, context].       *)
(***************************************************************************)
\* gen(operand), where gen is Instruction::PAdd or Instruction::DAdd (in
\* push_xadd) or FatInstructionKind::PAdd or FatInstructionKind::DAdd (in
\* push_xadd_fat), named by its variant.
Call(gen, operand) == [op |-> gen, operand |-> operand, sub |-> <<>>]

\* Mutant of push_xadd_loop: the token that ends the run is pushed back
\* twice.
RECURSIVE push_xadd_loop_UngetTwice(_, _, _, _)
push_xadd_loop_UngetTwice(context, operand, inc, dec) ==
    LET Unget(u) ==
            [context |-> u.context, operand |-> operand, panic |-> u.panic,
             res |-> ParseOk]
        Again(u, info) == Unget(unget_token_info(u.context, info))
        Match(n, tt) ==
            IF n.res # ParseOk
            THEN [context |-> n.context, operand |-> operand, panic |-> FALSE,
                  res |-> n.res]
            ELSE IF tt = inc
            THEN push_xadd_loop_UngetTwice(n.context, operand + 1, inc, dec)
            ELSE IF tt = dec
            THEN push_xadd_loop_UngetTwice(n.context, operand - 1, inc, dec)
            ELSE Again(unget_token_info(n.context, n.info), n.info)
        Read(n) == Match(n, token_type(n.info))
    IN Read(next_token_info(context))

\* The loop of push_xadd: adds 1 for each inc and subtracts 1 for each dec
\* read, and ungets the first token that is neither; res is the error of
\* next_token_info()? where it returns one.
RECURSIVE push_xadd_loop(_, _, _, _)
push_xadd_loop(context, operand, inc, dec) ==
    LET Unget(u) ==
            [context |-> u.context, operand |-> operand, panic |-> u.panic,
             res |-> ParseOk]
        Match(n, tt) ==
            IF n.res # ParseOk
            THEN [context |-> n.context, operand |-> operand, panic |-> FALSE,
                  res |-> n.res]
            ELSE IF tt = inc THEN push_xadd_loop(n.context, operand + 1, inc, dec)
            ELSE IF tt = dec THEN push_xadd_loop(n.context, operand - 1, inc, dec)
            ELSE Unget(unget_token_info(n.context, n.info))
        Read(n) == Match(n, token_type(n.info))
    IN Read(next_token_info(context))

\* Mutant of push_xadd: the instruction is pushed whatever its operand.
push_xadd_KeepZero(context, instructions, initial_operand, inc, dec, gen) ==
    LET Done(l) ==
            [res |-> IF l.res # ParseOk THEN l.res
                     ELSE IF l.panic THEN ParsePanic ELSE ParseOk,
             context |-> l.context,
             instructions |-> IF l.panic \/ l.res # ParseOk THEN instructions
                              ELSE Append(instructions, Call(gen, l.operand))]
    IN Done(push_xadd_loop(context, initial_operand, inc, dec))

push_xadd(context, instructions, initial_operand, inc, dec, gen) ==
    LET Done(l) ==
            [res |-> IF l.res # ParseOk THEN l.res
                     ELSE IF l.panic THEN ParsePanic ELSE ParseOk,
             context |-> l.context,
             instructions |-> IF ~l.panic /\ l.res = ParseOk /\ l.operand # 0
                              THEN Append(instructions, Call(gen, l.operand))
                              ELSE instructions]
    IN Done(push_xadd_loop(context, initial_operand, inc, dec))

push_padd(context, instructions, initial_operand) ==
    push_xadd(context, instructions, initial_operand, "PInc", "PDec", "PAdd")

push_dadd(context, instructions, initial_operand) ==
    push_xadd(context, instructions, initial_operand, "DInc", "DDec", "DAdd")

\* Mutant of the LoopTail arm: the error carries the position of the end of
\* the stream.
LoopTailArm_EndPos(context, top_level, info, instructions) ==
    IF top_level
    THEN [res |-> UnexpectedEndOfLoop(context.token_stream.last_pos_in_chars),
          context |-> context, instructions |-> <<>>]
    ELSE [res |-> ParseOk, context |-> context, instructions |-> instructions]

\* The LoopTail arm of parse_internal.
LoopTailArm(context, top_level, info, instructions) ==
    IF top_level
    THEN [res |-> UnexpectedEndOfLoop(info.pos_in_chars), context |-> context,
          instructions |-> <<>>]
    ELSE [res |-> ParseOk, context |-> context, instructions |-> instructions]

\* Mutant of the None arm: the end of the stream closes the open loops.
EndOfStreamArm_ClosesLoops(context, top_level, info, instructions) ==
    [res |-> ParseOk, context |-> context, instructions |-> instructions]

\* The None arm of parse_internal.
EndOfStreamArm(context, top_level, info, instructions) ==
    IF top_level
    THEN [res |-> ParseOk, context |-> context, instructions |-> instructions]
    ELSE [res |-> UnexpectedEndOfFile(info.pos_in_chars), context |-> context,
          instructions |-> <<>>]

\* parse_internal, entered with the instructions its loop has pushed so far.
RECURSIVE parse_internal(_, _, _)
parse_internal(context, top_level, instructions) ==
    LET Continue(r) ==
            IF r.res = ParseOk
            THEN parse_internal(r.context, top_level, r.instructions)
            ELSE [res |-> r.res, context |-> r.context, instructions |-> <<>>]
        Loop(sub) ==
            IF sub.res = ParseOk
            THEN parse_internal(sub.context, top_level,
                     Append(instructions, UntilZero(sub.instructions)))
            ELSE sub
        Match(n, info, tt) ==
            CASE n.res # ParseOk ->
                    [res |-> n.res, context |-> n.context, instructions |-> <<>>]
              [] tt = "PInc" -> Continue(push_padd(n.context, instructions, 1))
              [] tt = "PDec" -> Continue(push_padd(n.context, instructions, -1))
              [] tt = "DInc" -> Continue(push_dadd(n.context, instructions, 1))
              [] tt = "DDec" -> Continue(push_dadd(n.context, instructions, -1))
              [] tt = "Output" ->
                    parse_internal(n.context, top_level,
                                   Append(instructions, Output))
              [] tt = "Input" ->
                    parse_internal(n.context, top_level,
                                   Append(instructions, Input))
              [] tt = "LoopHead" -> Loop(parse_internal(n.context, FALSE, <<>>))
              [] tt = "LoopTail" ->
                    LoopTailArm(n.context, top_level, info, instructions)
              [] OTHER -> EndOfStreamArm(n.context, top_level, info, instructions)
        Read(n) == Match(n, n.info, token_type(n.info))
    IN Read(next_token_info(context))

\* Program::new(parse_internal(&mut context, true)?)
parse_str(tokenizer) ==
    LET Program_new(r) == [res |-> r.res, instructions |-> r.instructions]
    IN Program_new(parse_internal(ParseContext_new(token_stream(tokenizer)),
                                  TRUE, <<>>))

\* Parser::new(spec.to_tokenizer()).parse_str(source): Parser::parse_str on
\* the stream of a SimpleTokenizer.
simple_parse_str(spec, source) ==
    LET Program_new(r) == [res |-> r.res, instructions |-> r.instructions]
    IN Program_new(parse_internal(
           ParseContext_new(
               SimpleTokenizer_token_stream(to_tokenizer(spec), source)),
           TRUE, <<>>))

\* predefined::ook::parser().parse_str(source): Parser::parse_str on the
\* stream of OokTokenizer.
ook_parse_str(source) ==
    LET Program_new(r) == [res |-> r.res, instructions |-> r.instructions]
    IN Program_new(parse_internal(ParseContext_new(OokTokenStream_new(source)),
                                  TRUE, <<>>))

(***************************************************************************)
(* program::FatInstruction and program::FatInstructionKind.                *)
(***************************************************************************)
FatPAdd(n) == [op |-> "PAdd", operand |-> n, sub |-> <<>>]
FatDAdd(n) == [op |-> "DAdd", operand |-> n, sub |-> <<>>]
FatOutput == [op |-> "Output", operand |-> 0, sub |-> <<>>]
FatInput == [op |-> "Input", operand |-> 0, sub |-> <<>>]
FatUntilZero(sub) == [op |-> "UntilZero", operand |-> 0, sub |-> sub]
Nop == [op |-> "Nop", operand |-> 0, sub |-> <<>>]

FatInstruction(kind, tokens) == [kind |-> kind, tokens |-> tokens]

(***************************************************************************)
(* Parser::parse_str_fat.  A parse returns                                 *)
(* [res, instructions, last_token, context].                               *)
(***************************************************************************)
RECURSIVE push_xadd_fat_loop(_, _, _, _, _)
push_xadd_fat_loop(context, operand, tokens, inc, dec) ==
    LET Unget(u) ==
            [context |-> u.context, operand |-> operand, tokens |-> tokens,
             panic |-> u.panic, res |-> ParseOk]
        Match(n, tt) ==
            IF n.res # ParseOk
            THEN [context |-> n.context, operand |-> operand, tokens |-> tokens,
                  panic |-> FALSE, res |-> n.res]
            ELSE IF tt = inc
            THEN push_xadd_fat_loop(n.context, operand + 1,
                                    Append(tokens, n.info), inc, dec)
            ELSE IF tt = dec
            THEN push_xadd_fat_loop(n.context, operand - 1,
                                    Append(tokens, n.info), inc, dec)
            ELSE Unget(unget_token_info(n.context, n.info))
        Read(n) == Match(n, token_type(n.info))
    IN Read(next_token_info(context))

push_xadd_fat(context, instructions, initial_token, initial_operand, inc, dec, gen) ==
    LET Done(l, kind) ==
            [res |-> IF l.res # ParseOk THEN l.res
                     ELSE IF l.panic THEN ParsePanic ELSE ParseOk,
             context |-> l.context,
             instructions |->
                IF l.panic \/ l.res # ParseOk THEN instructions
                ELSE Append(instructions, FatInstruction(kind, l.tokens))]
        Kind(l) == Done(l, IF l.operand = 0 THEN Nop ELSE Call(gen, l.operand))
    IN Kind(push_xadd_fat_loop(context, initial_operand, <<initial_token>>,
                               inc, dec))

push_padd_fat(context, instructions, initial_token, initial_operand) ==
    push_xadd_fat(context, instructions, initial_token, initial_operand,
                  "PInc", "PDec", "PAdd")

push_dadd_fat(context, instructions, initial_token, initial_operand) ==
    push_xadd_fat(context, instructions, initial_token, initial_operand,
                  "DInc", "DDec", "DAdd")

\* Mutant of flat_map_tokens: a loop takes the first token of each
\* instruction of its body.
RECURSIVE flat_map_tokens_FirstOfEach(_)
flat_map_tokens_FirstOfEach(sub) ==
    IF sub = <<>> THEN <<>>
    ELSE <<Head(Head(sub).tokens)>> \o flat_map_tokens_FirstOfEach(Tail(sub))

\* sub.iter().flat_map(|i| i.tokens.iter())
RECURSIVE flat_map_tokens(_)
flat_map_tokens(sub) ==
    IF sub = <<>> THEN <<>> ELSE Head(sub).tokens \o flat_map_tokens(Tail(sub))

RECURSIVE parse_internal_fat(_, _, _)
parse_internal_fat(context, top_level, instructions) ==
    LET Failed(res, ctx) ==
            [res |-> res, context |-> ctx, instructions |-> <<>>,
             last_token |-> None]
        Continue(r) ==
            IF r.res = ParseOk
            THEN parse_internal_fat(r.context, top_level, r.instructions)
            ELSE Failed(r.res, r.context)
        Loop(info, sub) ==
            IF sub.res # ParseOk THEN sub
            ELSE IF ~sub.last_token.some
            THEN Failed(ParsePanic, sub.context)
            ELSE parse_internal_fat(sub.context, top_level,
                     Append(instructions,
                         FatInstruction(FatUntilZero(sub.instructions),
                             <<info>> \o flat_map_tokens(sub.instructions)
                                 \o <<sub.last_token.v>>)))
        Match(n, info, tt) ==
            CASE n.res # ParseOk -> Failed(n.res, n.context)
              [] tt = "PInc" ->
                    Continue(push_padd_fat(n.context, instructions, info, 1))
              [] tt = "PDec" ->
                    Continue(push_padd_fat(n.context, instructions, info, -1))
              [] tt = "DInc" ->
                    Continue(push_dadd_fat(n.context, instructions, info, 1))
              [] tt = "DDec" ->
                    Continue(push_dadd_fat(n.context, instructions, info, -1))
              [] tt = "Output" ->
                    parse_internal_fat(n.context, top_level,
                        Append(instructions, FatInstruction(FatOutput, <<info>>)))
              [] tt = "Input" ->
                    parse_internal_fat(n.context, top_level,
                        Append(instructions, FatInstruction(FatInput, <<info>>)))
              [] tt = "LoopHead" ->
                    Loop(info, parse_internal_fat(n.context, FALSE, <<>>))
              [] tt = "LoopTail" ->
                    IF top_level
                    THEN Failed(UnexpectedEndOfLoop(info.pos_in_chars), n.context)
                    ELSE [res |-> ParseOk, context |-> n.context,
                          instructions |-> instructions,
                          last_token |-> Some(info)]
              [] OTHER ->
                    IF top_level
                    THEN [res |-> ParseOk, context |-> n.context,
                          instructions |-> instructions, last_token |-> None]
                    ELSE Failed(UnexpectedEndOfFile(info.pos_in_chars), n.context)
        Read(n) == Match(n, n.info, token_type(n.info))
    IN Read(next_token_info(context))

\* FatProgram::new(instructions), after assert!(last_token.is_none()).
parse_str_fat(tokenizer) ==
    LET FatProgram_new(r) ==
            IF r.res = ParseOk /\ r.last_token.some
            THEN [res |-> ParsePanic, instructions |-> <<>>]
            ELSE [res |-> r.res, instructions |-> r.instructions]
    IN FatProgram_new(parse_internal_fat(
           ParseContext_new(token_stream(tokenizer)), TRUE, <<>>))

\* predefined::ook::parser().parse_str_fat(source)
ook_parse_str_fat(source) ==
    LET FatProgram_new(r) ==
            IF r.res = ParseOk /\ r.last_token.some
            THEN [res |-> ParsePanic, instructions |-> <<>>]
            ELSE [res |-> r.res, instructions |-> r.instructions]
    IN FatProgram_new(parse_internal_fat(
           ParseContext_new(OokTokenStream_new(source)), TRUE, <<>>))

(***************************************************************************)
(* FatProgram::as_program.                                                 *)
(***************************************************************************)
RECURSIVE fat_instructions_to_instructins(_)
\* FatInstructionKind::as_instruction; Nop gives None.
\* Mutant of as_instruction: the body of a loop is left behind.
as_instruction_EmptyBody(kind) ==
    CASE kind.op = "PAdd" -> Some(PAdd(kind.operand))
      [] kind.op = "DAdd" -> Some(DAdd(kind.operand))
      [] kind.op = "Output" -> Some(Output)
      [] kind.op = "Input" -> Some(Input)
      [] kind.op = "UntilZero" -> Some(UntilZero(<<>>))
      [] OTHER -> None

\* FatInstructionKind::as_instruction
as_instruction(kind) ==
    CASE kind.op = "PAdd" -> Some(PAdd(kind.operand))
      [] kind.op = "DAdd" -> Some(DAdd(kind.operand))
      [] kind.op = "Output" -> Some(Output)
      [] kind.op = "Input" -> Some(Input)
      [] kind.op = "UntilZero" ->
            Some(UntilZero(fat_instructions_to_instructins(kind.sub)))
      [] OTHER -> None

\* filter_map(|inst| inst.kind.as_instruction()).collect()
fat_instructions_to_instructins(fat_instructions) ==
    IF fat_instructions = <<>> THEN <<>>
    ELSE LET i == as_instruction(Head(fat_instructions).kind)
             rest == fat_instructions_to_instructins(Tail(fat_instructions))
         IN IF i.some THEN <<i.v>> \o rest ELSE rest

as_program(fat_program) == fat_instructions_to_instructins(fat_program)

(***************************************************************************)
(* regex::Regex, as far as the patterns of the model go: chars, escaped    *)
(* chars, classes [..] and the repetition +.  A compiled Regex is the      *)
(* sequence of its items, each a set of chars, repeated or not.            *)
(***************************************************************************)
RegexItem(set) == [set |-> set, plus |-> FALSE]
RegexOk(items) == [ok |-> TRUE, regex |-> items, error |-> ""]
RegexErr(error) == [ok |-> FALSE, regex |-> <<>>, error |-> error]

\* The class that starts behind the [ before char i: its chars and the char
\* behind its ].  A ] that is the first char of the class is one of its chars.
RECURSIVE parse_class(_, _, _, _)
parse_class(re, i, set, first) ==
    IF i > Len(re) THEN [ok |-> FALSE, set |-> set, next |-> i]
    ELSE IF re[i] = 93 /\ ~first THEN [ok |-> TRUE, set |-> set, next |-> i + 1]
    ELSE IF re[i] = 92
    THEN IF i = Len(re) THEN [ok |-> FALSE, set |-> set, next |-> i]
         ELSE parse_class(re, i + 2, set \cup {re[i + 1]}, FALSE)
    ELSE parse_class(re, i + 1, set \cup {re[i]}, FALSE)

RECURSIVE parse_regex(_, _, _)
parse_regex(re, i, items) ==
    IF i > Len(re) THEN RegexOk(items)
    ELSE CASE re[i] = 43 ->
                IF items = <<>>
                THEN RegexErr("repetition operator missing expression")
                ELSE parse_regex(re, i + 1,
                                 [items EXCEPT ![Len(items)].plus = TRUE])
           [] re[i] = 92 ->
                IF i = Len(re) THEN RegexErr("incomplete escape sequence")
                ELSE parse_regex(re, i + 2, Append(items, RegexItem({re[i + 1]})))
           [] re[i] = 91 ->
                LET class == parse_class(re, i + 1, {}, TRUE)
                IN IF class.ok
                   THEN parse_regex(re, class.next,
                                    Append(items, RegexItem(class.set)))
                   ELSE RegexErr("unclosed character class")
           [] OTHER -> parse_regex(re, i + 1, Append(items, RegexItem({re[i]})))

\* Regex::new
Regex_new(re) == parse_regex(re, 1, <<>>)

\* The chars from char k on (counted from 0) that lie in set, without a gap.
RECURSIVE run_of(_, _, _)
run_of(text, k, set) ==
    IF k < Len(text) /\ text[k + 1] \in set THEN 1 + run_of(text, k + 1, set)
    ELSE 0

\* Where the match of items that starts at char k ends, or -1 for no match.
\* A repeated item takes as many chars as the rest of the items allows.
RECURSIVE match_at(_, _, _)
match_at(items, text, k) ==
    LET Longest(ends) ==
            IF ends = {} THEN -1
            ELSE match_at(Tail(items), text,
                          k + CHOOSE n \in ends : \A o \in ends : o <= n)
        Take(item, most) ==
            IF most = 0 THEN -1
            ELSE IF ~item.plus THEN match_at(Tail(items), text, k + 1)
            ELSE Longest({n \in 1..most :
                            match_at(Tail(items), text, k + n) # -1})
        Item(item) == Take(item, run_of(text, k, item.set))
    IN IF items = <<>> THEN k ELSE Item(Head(items))

\* regex::Match: the byte offsets of the match in the text, and the text.
Match(text, from, to) ==
    [start |-> str_len(SubSeq(text, 1, from)), end |-> str_len(SubSeq(text, 1, to)),
     text |-> text]
Match_as_str(m) == str_slice(m.text, m.start, m.end)

\* Regex::find: the leftmost match.
Regex_find(regex, text) ==
    LET At(k) == Some(Match(text, k, match_at(regex, text, k)))
        Leftmost(starts) ==
            IF starts = {} THEN None
            ELSE At(CHOOSE s \in starts : \A o \in starts : s <= o)
    IN Leftmost({k \in 0..Len(text) : match_at(regex, text, k) # -1})

(***************************************************************************)
(* token::regex: RegexTokenizer and RegexTokenStream.                      *)
(***************************************************************************)
RegexTokenDef(tt, regex) == [token_type |-> tt, regex |-> regex]
RegexErrorDescription(index, error) == [index |-> index, error |-> error]

\* The for loop of from_str_spec from the pair at index on.
RECURSIVE from_str_spec_loop(_, _, _, _)
from_str_spec_loop(spec, index, token_defs, errors) ==
    LET Compiled(r) ==
            IF r.ok
            THEN from_str_spec_loop(spec, index + 1,
                    Append(token_defs,
                           RegexTokenDef(spec[index + 1].token_type, r.regex)),
                    errors)
            ELSE from_str_spec_loop(spec, index + 1, token_defs,
                    Append(errors, RegexErrorDescription(index, r.error)))
    IN IF index >= Len(spec)
       THEN [token_defs |-> token_defs, errors |-> errors]
       ELSE Compiled(Regex_new(spec[index + 1].re))

\* Mutant of from_str_spec: the first pattern that fails ends the loop.
from_str_spec_FailFast(spec) ==
    LET Result(l) ==
            IF l.errors # <<>>
            THEN [ok |-> FALSE, token_defs |-> <<>>,
                  errors |-> <<Head(l.errors)>>]
            ELSE [ok |-> TRUE, token_defs |-> l.token_defs, errors |-> <<>>]
    IN Result(from_str_spec_loop(spec, 0, <<>>, <<>>))

\* RegexTokenizer::from_str_spec: Ok(RegexTokenizer) or Err(RegexErrors).
from_str_spec(spec) ==
    LET Result(l) ==
            IF l.errors # <<>>
            THEN [ok |-> FALSE, token_defs |-> <<>>, errors |-> l.errors]
            ELSE [ok |-> TRUE, token_defs |-> l.token_defs, errors |-> <<>>]
    IN Result(from_str_spec_loop(spec, 0, <<>>, <<>>))

RegexTokenizer_token_stream(tokenizer, source) ==
    [token_defs |-> tokenizer.token_defs, source |-> source, pos |-> 0,
     pos_in_chars |-> 0]

\* filter_map(|def| def.regex.find(text).map(|m| (m, def))): the matches in
\* the order of the token definitions.
RECURSIVE filter_map_find(_, _)
filter_map_find(text, token_defs) ==
    LET Map(m, rest) ==
            IF m.some THEN <<[m |-> m.v, def |-> Head(token_defs)]>> \o rest
            ELSE rest
    IN IF token_defs = <<>> THEN <<>>
       ELSE Map(Regex_find(Head(token_defs).regex, text),
                filter_map_find(text, Tail(token_defs)))

\* Mutant of next_match: of the matches that start first, the last wins.
next_match_LastWins(text, token_defs) ==
    LET MinByKey(found) ==
            IF found = <<>> THEN None
            ELSE Some(found[CHOOSE i \in DOMAIN found :
                    /\ \A j \in DOMAIN found : found[i].m.start <= found[j].m.start
                    /\ \A j \in DOMAIN found :
                        found[j].m.start = found[i].m.start => j <= i])
    IN MinByKey(filter_map_find(text, token_defs))

\* next_match.  Iterator::min_by_key returns the first of several minima.
next_match(text, token_defs) ==
    LET MinByKey(found) ==
            IF found = <<>> THEN None
            ELSE Some(found[CHOOSE i \in DOMAIN found :
                    /\ \A j \in DOMAIN found : found[i].m.start <= found[j].m.start
                    /\ \A j \in DOMAIN found :
                        found[j].m.start = found[i].m.start => i <= j])
    IN MinByKey(filter_map_find(text, token_defs))

\* Mutant of RegexTokenStream_next: the position of a token is counted from
\* the cursor.
RegexTokenStream_next_FromCursor(stream) ==
    LET End(subtext, end) ==
            [stream |-> end, res |-> ParseOk,
             info |-> TokenInfo(NoToken, end.pos_in_chars)]
        Found(m, def, matched_str, pos_in_chars) ==
            [stream |-> [stream EXCEPT
                            !.pos = @ + m.end,
                            !.pos_in_chars =
                                stream.pos_in_chars + pos_in_chars
                                    + Len(matched_str)],
             res |-> ParseOk,
             info |-> TokenInfo(Token(def.token_type, matched_str),
                                pos_in_chars)]
        Some_m_def(subtext, m, def) ==
            Found(m, def, Match_as_str(m), Len(str_slice(subtext, 0, m.start)))
        Matched_on(subtext, found) ==
            IF found.some THEN Some_m_def(subtext, found.v.m, found.v.def)
            ELSE End(subtext,
                     [stream EXCEPT !.pos = str_len(stream.source),
                                    !.pos_in_chars = @ + Len(subtext)])
        Subtext(subtext) ==
            Matched_on(subtext, next_match(subtext, stream.token_defs))
    IN Subtext(str_from(stream.source, stream.pos))

\* RegexTokenStream::next; it returns Ok always.  Subtext, Matched_on,
\* Some_m_def, Found and End are the function from each of its let bindings
\* and match arms on.
RegexTokenStream_next(stream) ==
    LET End(subtext, end) ==
            [stream |-> end, res |-> ParseOk,
             info |-> TokenInfo(NoToken, end.pos_in_chars)]
        Found(m, def, matched_str, pos_in_chars) ==
            [stream |-> [stream EXCEPT
                            !.pos = @ + m.end,
                            !.pos_in_chars = pos_in_chars + Len(matched_str)],
             res |-> ParseOk,
             info |-> TokenInfo(Token(def.token_type, matched_str),
                                pos_in_chars)]
        Some_m_def(subtext, m, def) ==
            Found(m, def, Match_as_str(m),
                  stream.pos_in_chars + Len(str_slice(subtext, 0, m.start)))
        Matched_on(subtext, found) ==
            IF found.some THEN Some_m_def(subtext, found.v.m, found.v.def)
            ELSE End(subtext,
                     [stream EXCEPT !.pos = str_len(stream.source),
                                    !.pos_in_chars = @ + Len(subtext)])
        Subtext(subtext) ==
            Matched_on(subtext, next_match(subtext, stream.token_defs))
    IN Subtext(str_from(stream.source, stream.pos))

(***************************************************************************)
(* The inputs Init draws from.                                             *)
(***************************************************************************)
Atoms == {PAdd(1), PAdd(-1), DAdd(1), DAdd(-1), Output, Input}

\* Instruction sequences, and instructions, that hold exactly n instructions
\* (a loop counts itself and its body).
RECURSIVE SeqsOfSize(_), InstrsOfSize(_)
SeqsOfSize(n) ==
    IF n = 0 THEN {<<>>}
    ELSE UNION {{<<i>> \o rest : i \in InstrsOfSize(k), rest \in SeqsOfSize(n - k)}
                    : k \in 1..n}
InstrsOfSize(k) ==
    (IF k = 1 THEN Atoms ELSE {}) \cup {UntilZero(b) : b \in SeqsOfSize(k - 1)}

GeneratedPrograms == UNION {SeqsOfSize(n) : n \in 0..MaxSize}

SmallPolicies == {Fixed(0), Fixed(1), RightInfinite, BothInfinite}

SmallStreams ==
    {[in |-> Reader(<<>>, FALSE), out |-> Writer(-1)],
     [in |-> Reader(<<2>>, FALSE), out |-> Writer(-1)],
     [in |-> Reader(<<1, 0>>, FALSE), out |-> Writer(-1)],
     [in |-> Reader(<<>>, TRUE), out |-> Writer(0)]}

\* The programs of the tests of runtime/mod.rs, and programs whose operands
\* lie at and beyond the ends of a byte and of isize.
DAddOperands == {3, 255, 256, 257, -255, -256, -257, IsizeMax, IsizeMin}
TestPrograms ==
    {<<Input, Output, Input, Output>>,
     <<PAdd(-1), DAdd(1)>>, <<PAdd(30000), DAdd(1)>>, <<PAdd(65536), DAdd(1)>>,
     <<PAdd(29999), DAdd(1)>>, <<PAdd(30000), PAdd(-1), DAdd(-1), Output>>,
     <<PAdd(-2), Input, PAdd(1), DAdd(-1), UntilZero(<<PAdd(1)>>), Output>>,
     <<Input, UntilZero(<<Output, Input>>)>>,
     <<DAdd(2), UntilZero(<<PAdd(1), DAdd(1), UntilZero(<<DAdd(-1)>>), PAdd(-1),
                            DAdd(-1)>>), Output>>}
    \cup {<<Input, DAdd(d), Output>> : d \in DAddOperands}

AllPolicies == SmallPolicies \cup {DEFAULT_MEMSIZE}

TestStreams ==
    {[in |-> Reader(<<254>>, FALSE), out |-> Writer(-1)],
     [in |-> Reader(<<42, 53>>, FALSE), out |-> Writer(1)],
     [in |-> Reader(<<>>, FALSE), out |-> Writer(-1)],
     [in |-> Reader(<<0>>, TRUE), out |-> Writer(-1)]}

Configs ==
    {[program |-> p, memsize |-> m, input |-> io.in, output |-> io.out]
        : p \in GeneratedPrograms, m \in SmallPolicies, io \in SmallStreams}
    \cup
    {[program |-> p, memsize |-> m, input |-> io.in, output |-> io.out]
        : p \in TestPrograms, m \in AllPolicies, io \in TestStreams}

\* The symbol each token type has in Brainfuck: > < + - . , [ ]
ClassicSymbol(tt) ==
    CASE tt = "PInc" -> <<62>> [] tt = "PDec" -> <<60>>
      [] tt = "DInc" -> <<43>> [] tt = "DDec" -> <<45>>
      [] tt = "Output" -> <<46>> [] tt = "Input" -> <<44>>
      [] tt = "LoopHead" -> <<91>> [] OTHER -> <<93>>

\* Every sequence of at most MaxTokens token types; the tokens lie two chars
\* apart from the char at first, and the stream ends two chars after the last.
GeneratedTokenizers ==
    {TestTokenizer([i \in 1..Len(ts) |->
                        TokenInfo(Token(ts[i], ClassicSymbol(ts[i])),
                                  first + 2 * (i - 1))],
                   first + 2 * Len(ts))
        : ts \in UNION {[1..n -> TokenType] : n \in 0..MaxTokens}, first \in 0..1}

\* The tokenizers of the tests of parser/mod.rs.
TEST_TOKENIZER ==
    TestTokenizer(
        <<TokenInfo(Token("PInc", <<62>>), 0), TokenInfo(Token("PDec", <<60>>), 1),
          TokenInfo(Token("PDec", <<60>>), 2), TokenInfo(Token("DInc", <<43>>), 3),
          TokenInfo(Token("DDec", <<45>>), 5), TokenInfo(Token("DInc", <<43>>), 7),
          TokenInfo(Token("LoopHead", <<91>>), 11),
          TokenInfo(Token("Input", <<44>>), 13),
          TokenInfo(Token("Output", <<46>>), 17),
          TokenInfo(Token("PDec", <<62>>), 19), TokenInfo(Token("PInc", <<60>>), 23),
          TokenInfo(Token("DDec", <<43>>), 29), TokenInfo(Token("DInc", <<45>>), 31),
          TokenInfo(Token("LoopTail", <<93>>), 37)>>,
        41)
TEST_TOKENIZER_UNEXPECTED_NDO_OF_LOOP ==
    TestTokenizer(<<TokenInfo(Token("LoopTail", <<93>>), 1)>>, 2)
TEST_TOKENIZER_UNEXPECTED_NDO_OF_FILE ==
    TestTokenizer(<<TokenInfo(Token("LoopHead", <<91>>), 1)>>, 2)

Tokenizers ==
    GeneratedTokenizers
    \cup {TEST_TOKENIZER, TEST_TOKENIZER_UNEXPECTED_NDO_OF_LOOP,
          TEST_TOKENIZER_UNEXPECTED_NDO_OF_FILE}

\* The symbols a token specification of the generated family draws from:
\* the strings of at most two chars over '+' and a char of three bytes.
Symbols ==
    {<<>>, <<43>>, <<8594>>, <<43, 43>>, <<43, 8594>>, <<8594, 43>>, <<8594, 8594>>}

\* Brainfuck's symbols, as in the example of token/simple/mod.rs.
ClassicSpec ==
    [ptr_inc |-> <<62>>, ptr_dec |-> <<60>>, data_inc |-> <<43>>,
     data_dec |-> <<45>>, output |-> <<46>>, input |-> <<44>>,
     loop_head |-> <<91>>, loop_tail |-> <<93>>]

\* ptr_inc, data_inc and loop_tail are drawn; the rest is Brainfuck's.
GeneratedSpecs ==
    {[ClassicSpec EXCEPT !.ptr_inc = a, !.data_inc = b, !.loop_tail = c]
        : a \in Symbols, b \in Symbols, c \in Symbols}

\* The chars of a generated source: '+', the char of three bytes, and 'x',
\* which no generated symbol holds.
SourceChars == {43, 8594, 120}

GeneratedSources == UNION {[1..n -> SourceChars] : n \in 0..MaxSrcLen}

\* ">(ignored here)+", the source of the example of token/simple/mod.rs.
ExampleSource ==
    <<62, 40, 105, 103, 110, 111, 114, 101, 100, 32, 104, 101, 114, 101, 41, 43>>

TokenizerInputs ==
    {[spec |-> s, source |-> src] : s \in GeneratedSpecs, src \in GeneratedSources}
    \cup {[spec |-> ClassicSpec, source |-> ExampleSource]}

(***************************************************************************)
(* Spec: the runtime.  The StepRunner, the Runner and the Runtime of       *)
(* runtime::run are three values that share nothing: each is built from    *)
(* its own copy of the inputs.  The order of the calls on different values *)
(* therefore cannot be observed, and the model makes the two one-shot      *)
(* calls first and steps the StepRunner afterwards.                        *)
(***************************************************************************)
NoCall ==
    [res |-> NotCalled,
     rt |-> Runtime_new(Reader(<<>>, FALSE), Writer(-1), Fixed(0))]

RuntimeInit(c) ==
    /\ cfg = c
    /\ sr = StepRunner_with_memsize(c.program, c.input, c.output, c.memsize)
    /\ sres = NotCalled
    /\ hist = [inst |-> PanicInst, pre |-> sr]
    /\ nsteps = 0
    /\ runner = NoCall
    /\ legacy = NoCall

\* The runtime where another specification leaves it alone.
IdleConfig ==
    [program |-> <<>>, memsize |-> DEFAULT_MEMSIZE,
     input |-> Reader(<<>>, FALSE), output |-> Writer(-1)]

NotParsed == [res |-> ParseNotCalled, instructions |-> <<>>]

ParserInit(t) ==
    /\ test_tokenizer = t
    /\ parsed = NotParsed
    /\ parsed_fat = NotParsed

\* The parser where another specification leaves it alone.
ParserIdle == ParserInit(TestTokenizer(<<>>, 0))

TokenizerInit(i) ==
    /\ token_spec = i.spec
    /\ simple_stream =
        SimpleTokenizer_token_stream(to_tokenizer(i.spec), i.source)
    /\ emitted = [called |-> FALSE, info |-> TokenInfo(NoToken, 0),
                  before |-> simple_stream, count |-> 0]

\* The tokenizer where another specification leaves it alone.
TokenizerIdle == TokenizerInit([spec |-> ClassicSpec, source |-> <<>>])

\* The parse failed: there is no program to run.
NoProgram == [tag |-> "NoProgram", address |-> 0]

\* What no call of next has returned yet; info is the TokenInfo of the last
\* Ok, once any_ok.
NotEmitted(stream) ==
    [called |-> FALSE, res |-> ParseOk, any_ok |-> FALSE,
     info |-> TokenInfo(NoToken, 0), before |-> stream]

OokInit(source) ==
    /\ ook_stream = OokTokenStream_new(source)
    /\ ook_emitted = NotEmitted(ook_stream)

\* The regex tokenizer where another specification leaves it alone.
RegexIdle ==
    /\ regex_spec = <<>>
    /\ regex_tokenizer = None
    /\ regex_stream = None
    /\ regex_emitted = NotEmitted(None)

OokIdle == OokInit(<<>>)

\* The streams where another specification leaves them alone.
StreamsIdle ==
    /\ live = "none"
    /\ OokIdle
    /\ RegexIdle

\* No program of the parser has been run.
FatIdle ==
    /\ run_plain = NoCall
    /\ run_fat = NoCall

\* step_index before the call: the program and the index it is given.
IndexCall(program, index) ==
    [program |-> program, index |-> index, called |-> FALSE,
     after |-> index, ret |-> "false"]

\* Program::step_index where no specification calls it.
IndexIdle == index_call = IndexCall(<<>>, <<>>)

Init ==
    /\ \E c \in Configs : RuntimeInit(c)
    /\ ParserIdle
    /\ TokenizerIdle
    /\ FatIdle
    /\ StreamsIdle
    /\ IndexIdle

\* Runner::with_memsize(..).run(), which consumes the Runner.
RunnerRun ==
    /\ runner.res = NotCalled
    /\ LET r == Runner_run(Runner_with_memsize(cfg.program, cfg.input,
                                                cfg.output, cfg.memsize))
       IN runner' = [res |-> r.res, rt |-> r.rt]
    /\ UNCHANGED <<cfg, sr, sres, hist, nsteps, legacy>>
    /\ UNCHANGED parserVars
    /\ UNCHANGED tokenizerVars
    /\ UNCHANGED fatVars
    /\ UNCHANGED streamVars
    /\ UNCHANGED indexVars

\* runtime::run_with_memsize.
LegacyRun ==
    /\ legacy.res = NotCalled
    /\ LET r == run_with_memsize(cfg.program, cfg.input, cfg.output, cfg.memsize)
       IN legacy' = [res |-> r.res, rt |-> r.rt]
    /\ UNCHANGED <<cfg, sr, sres, hist, nsteps, runner>>
    /\ UNCHANGED parserVars
    /\ UNCHANGED tokenizerVars
    /\ UNCHANGED fatVars
    /\ UNCHANGED streamVars
    /\ UNCHANGED indexVars

\* One call of StepRunner::step.
Step ==
    /\ runner.res # NotCalled
    /\ legacy.res # NotCalled
    /\ nsteps < MaxSteps
    /\ LET r == step(cfg.program, sr) IN
        /\ sr' = r.s
        /\ sres' = r.res
        /\ hist' = [inst |-> IF sr.index.some
                             THEN instruction_at(cfg.program, sr.index.v)
                             ELSE PanicInst,
                    pre |-> sr]
        /\ nsteps' = IF sr.index.some /\ r.res = Ok THEN nsteps + 1 ELSE nsteps
    /\ UNCHANGED <<cfg, runner, legacy>>
    /\ UNCHANGED parserVars
    /\ UNCHANGED tokenizerVars
    /\ UNCHANGED fatVars
    /\ UNCHANGED streamVars
    /\ UNCHANGED indexVars

Next == RunnerRun \/ LegacyRun \/ Step

Spec == Init /\ [][Next]_vars

(***************************************************************************)
(* SpecParse: the parser.  One tokenizer is drawn in InitParse;            *)
(* Parser::parse_str and Parser::parse_str_fat, which take &self, are each *)
(* called once on it.                                                      *)
(***************************************************************************)
InitParse ==
    /\ RuntimeInit(IdleConfig)
    /\ TokenizerIdle
    /\ \E t \in Tokenizers : ParserInit(t)
    /\ FatIdle
    /\ StreamsIdle
    /\ IndexIdle

ParseStr ==
    /\ parsed.res = ParseNotCalled
    /\ parsed' = parse_str(test_tokenizer)
    /\ UNCHANGED <<test_tokenizer, parsed_fat>>
    /\ UNCHANGED runtimeVars
    /\ UNCHANGED tokenizerVars
    /\ UNCHANGED fatVars
    /\ UNCHANGED streamVars
    /\ UNCHANGED indexVars

ParseStrFat ==
    /\ parsed_fat.res = ParseNotCalled
    /\ parsed_fat' = parse_str_fat(test_tokenizer)
    /\ UNCHANGED <<test_tokenizer, parsed>>
    /\ UNCHANGED runtimeVars
    /\ UNCHANGED tokenizerVars
    /\ UNCHANGED fatVars
    /\ UNCHANGED streamVars
    /\ UNCHANGED indexVars

NextParse == ParseStr \/ ParseStrFat

SpecParse == InitParse /\ [][NextParse]_vars

(***************************************************************************)
(* SpecTok: the simple tokenizer.  A token specification and a source are  *)
(* drawn in InitTok, the stream of to_tokenizer().token_stream(source) is  *)
(* built, and next is called on it again and again; parse_str parses the   *)
(* source with a stream of its own.                                        *)
(***************************************************************************)
InitTok ==
    /\ RuntimeInit(IdleConfig)
    /\ ParserIdle
    /\ \E i \in TokenizerInputs : TokenizerInit(i)
    /\ FatIdle
    /\ live = "simple"
    /\ OokIdle
    /\ RegexIdle
    /\ IndexIdle

\* One call of next on the stream.  emitted.count counts the tokens
\* returned so far, up to one more than the chars of the source.
NextToken ==
    /\ LET n == SimpleTokenStream_next(simple_stream) IN
        /\ simple_stream' = n.stream
        /\ emitted' = [called |-> TRUE, info |-> n.info,
                       before |-> simple_stream,
                       count |-> IF n.info.token.some
                                    /\ emitted.count <= Len(simple_stream.source)
                                 THEN emitted.count + 1
                                 ELSE emitted.count]
    /\ UNCHANGED token_spec
    /\ UNCHANGED runtimeVars
    /\ UNCHANGED parserVars
    /\ UNCHANGED fatVars
    /\ UNCHANGED streamVars
    /\ UNCHANGED indexVars

\* No symbol of the token specification is the empty string.
NonEmptySymbols(spec) == \A f \in DOMAIN spec : spec[f] # <<>>

\* Parser::parse_str on the source, with the tokenizer of the token
\* specification.  The parse is followed where every symbol is non-empty:
\* an empty symbol matches wherever no other symbol does, without end.
ParseSource ==
    /\ NonEmptySymbols(token_spec)
    /\ parsed.res = ParseNotCalled
    /\ parsed' = simple_parse_str(token_spec, simple_stream.source)
    /\ UNCHANGED <<test_tokenizer, parsed_fat>>
    /\ UNCHANGED tokenizerVars
    /\ UNCHANGED runtimeVars
    /\ UNCHANGED fatVars
    /\ UNCHANGED streamVars
    /\ UNCHANGED indexVars

NextTok == NextToken \/ ParseSource

SpecTok == InitTok /\ [][NextTok]_vars

(***************************************************************************)
(* SpecOok: Ook.  A source is drawn in InitOok; next is called again and   *)
(* again on the stream OokTokenizer makes of it, and parse_str and         *)
(* parse_str_fat of predefined::ook::parser() are each called once on it.  *)
(***************************************************************************)
Ook(c) == COMMON_TOKEN_PART \o <<c>>

\* "Ook." "Ook?" "Ook!", a char of three bytes, and "Ook" with no . ? or !
OokWords == {Ook(46), Ook(63), Ook(33), <<65313>>, COMMON_TOKEN_PART}

RECURSIVE OokTexts(_)
OokTexts(n) ==
    IF n = 0 THEN {<<>>}
    ELSE {w \o t : w \in OokWords, t \in OokTexts(n - 1)} \cup OokTexts(n - 1)

OokSources == OokTexts(MaxOokWords)

InitOok ==
    /\ RuntimeInit(IdleConfig)
    /\ ParserIdle
    /\ TokenizerIdle
    /\ FatIdle
    /\ live = "ook"
    /\ \E source \in OokSources : OokInit(source)
    /\ RegexIdle
    /\ IndexIdle

OokNext ==
    /\ live = "ook"
    /\ LET n == OokTokenStream_next(ook_stream) IN
        /\ ook_stream' = n.stream
        /\ ook_emitted' =
              [called |-> TRUE, res |-> n.res,
               any_ok |-> ook_emitted.any_ok \/ n.res = ParseOk,
               info |-> IF n.res = ParseOk THEN n.info ELSE ook_emitted.info,
               before |-> ook_stream]
    /\ UNCHANGED <<live, regexVars>>
    /\ UNCHANGED <<runtimeVars, parserVars, tokenizerVars, fatVars>>
    /\ UNCHANGED indexVars

OokParseStr ==
    /\ live = "ook"
    /\ parsed.res = ParseNotCalled
    /\ parsed' = ook_parse_str(ook_stream.source)
    /\ UNCHANGED <<test_tokenizer, parsed_fat>>
    /\ UNCHANGED <<runtimeVars, tokenizerVars, fatVars, streamVars>>
    /\ UNCHANGED indexVars

OokParseStrFat ==
    /\ live = "ook"
    /\ parsed_fat.res = ParseNotCalled
    /\ parsed_fat' = ook_parse_str_fat(ook_stream.source)
    /\ UNCHANGED <<test_tokenizer, parsed>>
    /\ UNCHANGED <<runtimeVars, tokenizerVars, fatVars, streamVars>>
    /\ UNCHANGED indexVars

NextOok == OokNext \/ OokParseStr \/ OokParseStrFat

SpecOok == InitOok /\ [][NextOok]_vars

(***************************************************************************)
(* SpecRegex: the regex tokenizer.  A specification of (TokenType,         *)
(* pattern) pairs is drawn in InitRegex and given to from_str_spec; on the *)
(* tokenizer it returns, if any, token_stream is called with a source, and *)
(* next is called again and again on that stream.                          *)
(***************************************************************************)
\* The token types in the order the tests declare them.
TypeAt ==
    <<"PInc", "PDec", "DInc", "DDec", "Output", "Input", "LoopHead", "LoopTail">>

RegexSpecOf(patterns) ==
    [i \in 1..Len(patterns) |-> [token_type |-> TypeAt[i], re |-> patterns[i]]]

\* \+  [+→]  x+  []x]  →x  and two patterns that do not compile: +  [
RegexPatterns ==
    {<<92, 43>>, <<91, 43, 8594, 93>>, <<120, 43>>, <<91, 93, 120, 93>>,
     <<8594, 120>>, <<43>>, <<91>>}

GeneratedRegexSpecs ==
    {RegexSpecOf(ps) : ps \in UNION {[1..n -> RegexPatterns] : n \in 0..MaxPatterns}}

\* The specifications of test_tokenizer_from_str_spec and of test_stream.
TEST_BAD_SPEC ==
    RegexSpecOf(<<<<62>>, <<60>>, <<43>>, <<45>>, <<44>>, <<92, 46>>, <<91>>,
                  <<93>>>>)
TEST_OK_SPEC ==
    RegexSpecOf(<<<<62>>, <<60>>, <<92, 43>>, <<45>>, <<44>>, <<92, 46>>,
                  <<92, 91>>, <<93>>>>)
TEST_STREAM_SPEC ==
    RegexSpecOf(<<<<91, 62, 65310, 93, 93>>, <<91, 60, 65308, 93>>,
                  <<91, 43, 65291, 93>>, <<91, 45, 8722, 93>>,
                  <<91, 44, 65292, 93>>, <<91, 46, 65294, 93>>,
                  <<91, 92, 91, 65339, 93>>, <<91, 93, 65341, 93>>>>)
TEST_STREAM_SOURCE ==
    <<43, 65345, 65346, 65347, 8722, 65348, 65349, 65350>>

RegexSpecs ==
    GeneratedRegexSpecs \cup {TEST_BAD_SPEC, TEST_OK_SPEC, TEST_STREAM_SPEC}

RegexSources == GeneratedSources \cup {TEST_STREAM_SOURCE}

RegexInit(spec) ==
    /\ regex_spec = spec
    /\ regex_tokenizer = None
    /\ regex_stream = None
    /\ regex_emitted = NotEmitted(None)

InitRegex ==
    /\ RuntimeInit(IdleConfig)
    /\ ParserIdle
    /\ TokenizerIdle
    /\ FatIdle
    /\ live = "regex"
    /\ OokIdle
    /\ \E spec \in RegexSpecs : RegexInit(spec)
    /\ IndexIdle

FromStrSpec ==
    /\ live = "regex"
    /\ ~regex_tokenizer.some
    /\ regex_tokenizer' = Some(from_str_spec(regex_spec))
    /\ UNCHANGED <<live, ookVars, regex_spec, regex_stream, regex_emitted>>
    /\ UNCHANGED <<runtimeVars, parserVars, tokenizerVars, fatVars>>
    /\ UNCHANGED indexVars

RegexTokenStream ==
    /\ live = "regex"
    /\ regex_tokenizer.some
    /\ regex_tokenizer.v.ok
    /\ ~regex_stream.some
    /\ \E source \in RegexSources :
        /\ regex_stream' = Some(RegexTokenizer_token_stream(regex_tokenizer.v, source))
        /\ regex_emitted' = NotEmitted(regex_stream')
    /\ UNCHANGED <<live, ookVars, regex_spec, regex_tokenizer>>
    /\ UNCHANGED <<runtimeVars, parserVars, tokenizerVars, fatVars>>
    /\ UNCHANGED indexVars

RegexNext ==
    /\ live = "regex"
    /\ regex_stream.some
    /\ LET n == RegexTokenStream_next(regex_stream.v) IN
        /\ regex_stream' = Some(n.stream)
        /\ regex_emitted' =
              [called |-> TRUE, res |-> n.res,
               any_ok |-> regex_emitted.any_ok \/ n.res = ParseOk,
               info |-> IF n.res = ParseOk THEN n.info ELSE regex_emitted.info,
               before |-> regex_stream]
    /\ UNCHANGED <<live, ookVars, regex_spec, regex_tokenizer>>
    /\ UNCHANGED <<runtimeVars, parserVars, tokenizerVars, fatVars>>
    /\ UNCHANGED indexVars

NextRegex == FromStrSpec \/ RegexTokenStream \/ RegexNext

SpecRegex == InitRegex /\ [][NextRegex]_vars

(***************************************************************************)
(* SpecFat: the parser and the runtime together.  A token stream, a memory *)
(* policy, a reader and a writer are drawn in InitFat.  RunPlain parses    *)
(* the stream with parse_str and runs the Program; RunFat parses it with   *)
(* parse_str_fat and runs as_program() of the FatProgram.  Each run has    *)
(* its own copy of the reader and the writer.                              *)
(***************************************************************************)
FatTokenizers ==
    {t \in GeneratedTokenizers : t.last_pos_in_chars = 2 * Len(t.tokens)}

FatStreams ==
    {[in |-> Reader(<<2>>, FALSE), out |-> Writer(-1)],
     [in |-> Reader(<<>>, TRUE), out |-> Writer(1)]}

FatEnvs ==
    {[program |-> <<>>, memsize |-> m, input |-> io.in, output |-> io.out]
        : m \in SmallPolicies, io \in FatStreams}

InitFat ==
    /\ \E c \in FatEnvs : RuntimeInit(c)
    /\ \E t \in FatTokenizers : ParserInit(t)
    /\ TokenizerIdle
    /\ FatIdle
    /\ StreamsIdle
    /\ IndexIdle

RunPlain ==
    /\ run_plain.res = NotCalled
    /\ parsed' = parse_str(test_tokenizer)
    /\ run_plain' =
          IF parsed'.res = ParseOk
          THEN LET r == Runner_run(Runner_with_memsize(parsed'.instructions,
                                       cfg.input, cfg.output, cfg.memsize))
               IN [res |-> r.res, rt |-> r.rt]
          ELSE [run_plain EXCEPT !.res = NoProgram]
    /\ UNCHANGED <<test_tokenizer, parsed_fat, run_fat>>
    /\ UNCHANGED runtimeVars
    /\ UNCHANGED tokenizerVars
    /\ UNCHANGED streamVars
    /\ UNCHANGED indexVars

RunFat ==
    /\ run_fat.res = NotCalled
    /\ parsed_fat' = parse_str_fat(test_tokenizer)
    /\ run_fat' =
          IF parsed_fat'.res = ParseOk
          THEN LET r == Runner_run(Runner_with_memsize(
                                       as_program(parsed_fat'.instructions),
                                       cfg.input, cfg.output, cfg.memsize))
               IN [res |-> r.res, rt |-> r.rt]
          ELSE [run_fat EXCEPT !.res = NoProgram]
    /\ UNCHANGED <<test_tokenizer, parsed, run_plain>>
    /\ UNCHANGED runtimeVars
    /\ UNCHANGED tokenizerVars
    /\ UNCHANGED streamVars
    /\ UNCHANGED indexVars

NextFat == RunPlain \/ RunFat

SpecFat == InitFat /\ [][NextFat]_vars

(***************************************************************************)
(* Properties of the runtime.                                              *)
(***************************************************************************)
\* The last call of step executed an instruction (hist.inst), on hist.pre.
Stepped == sres # NotCalled /\ hist.pre.index.some

Accessing(inst) == inst.op \in {"DAdd", "Input", "Output", "UntilZero"}

\* The addresses a policy admits, as the claims state them.
Allowed(memsize, a) ==
    IF memsize.kind = "Fixed" THEN 0 <= a /\ a < memsize.len
    ELSE IF memsize.kind = "RightInfinite" THEN a >= 0
    ELSE TRUE

\* The value of the cell at address a; a cell no vector holds yet reads 0.
Peek(memory, a) ==
    IF a >= 0 THEN VecGet(memory.right_data, a)
    ELSE VecGet(memory.left_data, 0 - (a + 1))

\* C1: when Runner::run returns Ok, a StepRunner stepped until is_running()
\* is false on the same program, input and policy holds the same memory and
\* has written the same bytes, and no step on the way there fails.
C1_StepEqualsRun ==
    /\ (runner.res = Ok /\ ~is_running(sr))
        => /\ sr.runtime.memory = runner.rt.memory
           /\ sr.runtime.output.buf = runner.rt.output.buf
    /\ runner.res = Ok => sres \in {NotCalled, Ok}

\* C1 witness: both drivers finished a program that wrote output and went
\* round a loop (more instructions executed than the program holds).
C1_Witness ==
    /\ runner.res = Ok
    /\ ~is_running(sr)
    /\ sr.runtime.output.buf # <<>>
    /\ nsteps > 8

\* C2: an access at pointer a is rejected iff the policy excludes a, and
\* then with OutOfMemoryBounds(a); [PAdd(-1), DAdd(1)] fails with -1 unless
\* the policy is BothInfinite, and [PAdd(30000), DAdd(1)] fails with 30000
\* under the default policy.
C2_AccessByPolicyAlone ==
    /\ (Stepped /\ Accessing(hist.inst))
        => LET a == hist.pre.runtime.pointer IN
           IF Allowed(cfg.memsize, a)
           THEN sres.tag # "OutOfMemoryBounds"
           ELSE sres = OutOfMemoryBounds(a)
    /\ \A d \in {runner, legacy} :
        d.res # NotCalled =>
            /\ cfg.program = <<PAdd(-1), DAdd(1)>>
                => d.res = IF cfg.memsize.kind = "BothInfinite" THEN Ok
                           ELSE OutOfMemoryBounds(-1)
            /\ (cfg.program = <<PAdd(30000), DAdd(1)>>
                    /\ cfg.memsize = DEFAULT_MEMSIZE)
                => d.res = OutOfMemoryBounds(30000)

\* C2 witness: under the default policy a step was rejected at 30000.
C2_Witness ==
    /\ cfg.memsize = DEFAULT_MEMSIZE
    /\ Stepped
    /\ sres = OutOfMemoryBounds(30000)

\* C6: a DAdd(d) that succeeds on a cell holding v leaves (v + d) mod 256
\* there, a value in 0..255; [Input, DAdd(3), Output] on input 254 writes 1.
C6_DAddWraps ==
    /\ (Stepped /\ hist.inst.op = "DAdd" /\ sres = Ok)
        => LET a == hist.pre.runtime.pointer
               v == Peek(hist.pre.runtime.memory, a)
           IN /\ Peek(sr.runtime.memory, a) = (v + hist.inst.operand) % 256
              /\ Peek(sr.runtime.memory, a) \in 0..255
    /\ \A d \in {runner, legacy} :
        (d.res = Ok /\ cfg.program = <<Input, DAdd(3), Output>>
              /\ cfg.input.data = <<254>>)
            => d.rt.output.buf = <<1>>

\* C6 witness: DAdd of the largest isize succeeded on a cell holding 254.
C6_Witness ==
    /\ Stepped
    /\ hist.inst = DAdd(IsizeMax)
    /\ sres = Ok
    /\ Peek(hist.pre.runtime.memory, hist.pre.runtime.pointer) = 254

\* C7: PAdd(d) returns Ok and changes the pointer only (by d): memory, input
\* and output are as before, whatever the policy and wherever the pointer
\* lands; a program of PAdds alone runs to Ok on untouched memory.
IsPAddOnly(program) == \A i \in 1..Len(program) : program[i].op = "PAdd"

C8_InputAtEndIsEof ==
    /\ (Stepped /\ hist.inst.op = "Input"
            /\ Allowed(cfg.memsize, hist.pre.runtime.pointer)
            /\ hist.pre.runtime.input.data = <<>>
            /\ ~cfg.input.broken)
        => sres = Eof
    /\ (~cfg.input.broken /\ cfg.output.cap < 0)
        => /\ sres # IoError
           /\ runner.res # IoError
           /\ legacy.res # IoError

\* C9: a step that fails its bounds check leaves the StepRunner (memory,
\* pointer, streams and index) as it was; a one-instruction program that
\* fails it leaves the runtime as constructed.
C9_FailedAccessChangesNothing ==
    /\ (Stepped /\ sres.tag = "OutOfMemoryBounds") => sr = hist.pre
    /\ \A d \in {runner, legacy} :
        (d.res.tag = "OutOfMemoryBounds" /\ Len(cfg.program) = 1)
            => d.rt = Runtime_new(cfg.input, cfg.output, cfg.memsize)

\* C9 witness: the bounds check failed under RightInfinite after the right
\* vector had grown and a cell had been written.
C9_Witness ==
    /\ Stepped
    /\ sres.tag = "OutOfMemoryBounds"
    /\ cfg.memsize = RightInfinite
    /\ sr.runtime.memory.right_data.len > 0
    /\ DOMAIN sr.runtime.memory.right_data.nz # {}

\* What the last call of step returned is a RuntimeError.
Failed == Stepped /\ sres.tag \in {"OutOfMemoryBounds", "IoError", "Eof"}

\* C14: when an instruction fails, at any depth of loops, Runner::run returns
\* that error and executes nothing after it: its runtime is the one the
\* failing instruction left, and its output holds the bytes written before the
\* failing instruction.
C14_FailureHalts ==
    /\ (Failed /\ runner.res \notin {NotCalled, Pending})
        => /\ runner.res = sres
           /\ runner.rt = sr.runtime
           /\ runner.rt.output.buf = hist.pre.runtime.output.buf
    /\ (runner.res.tag \in {"OutOfMemoryBounds", "IoError", "Eof"} /\ Stepped)
        => sres \in {Ok, runner.res}

\* C14 witness: an instruction in the body of a loop failed after a byte had
\* been written, instructions follow it in the body, and Runner::run has
\* returned.
C14_Witness ==
    /\ Failed
    /\ runner.res = sres
    /\ Len(hist.pre.index.v) >= 2
    /\ hist.pre.runtime.output.buf # <<>>
    /\ step_index(cfg.program, hist.pre.index.v).ret = "true"

\* C15 as stated: under Fixed(0) every DAdd, Input and Output is rejected
\* with OutOfMemoryBounds(0).
C15_RejectedAtZero ==
    (Stepped /\ cfg.memsize = Fixed(0) /\ hist.inst.op \in {"DAdd", "Input", "Output"})
        => sres = OutOfMemoryBounds(0)

\* C15: under Fixed(0) every DAdd, Input and Output is rejected with
\* OutOfMemoryBounds(p), p the pointer at that moment (0 unless a PAdd has
\* moved it), and nothing is read, written or changed.
C15_FixedZeroRejects ==
    (Stepped /\ cfg.memsize = Fixed(0) /\ hist.inst.op \in {"DAdd", "Input", "Output"})
        => /\ sres = OutOfMemoryBounds(hist.pre.runtime.pointer)
           /\ sr = hist.pre
           /\ runner.res # NotCalled => runner.res = sres
           /\ hist.pre.runtime.pointer = 0 => sres = OutOfMemoryBounds(0)

\* C15 witness: under Fixed(0) an Input was rejected with bytes to read, after
\* a PAdd had moved the pointer off 0.
C15_Witness ==
    /\ Stepped
    /\ cfg.memsize = Fixed(0)
    /\ hist.inst.op = "Input"
    /\ hist.pre.runtime.input.data # <<>>
    /\ hist.pre.runtime.pointer # 0
    /\ sres.tag = "OutOfMemoryBounds"

\* The last call of step executed a loop with an empty body on a cell that
\* is not zero: exec_one returned StepIn of the empty body.
EnteredEmptyBody ==
    /\ Stepped
    /\ sres = Ok
    /\ hist.inst.op = "UntilZero"
    /\ hist.inst.sub = <<>>
    /\ Peek(hist.pre.runtime.memory, hist.pre.runtime.pointer) # 0

\* C20 as stated: after StepIn of an empty body the index is where Next
\* would have left it.
C20_EmptyBodyAdvances ==
    EnteredEmptyBody => sr.index = AfterNext(cfg.program, hist.pre.index.v)

\* C20: after StepIn of an empty body the index is left where it was, on the
\* loop, which the next step tests again; nothing else has changed, and
\* Runner::run on the same inputs does not return.
C20_EmptyBodyStays ==
    EnteredEmptyBody
        => /\ sr.index = hist.pre.index
           /\ sr.runtime = hist.pre.runtime
           /\ get_current_instruction(cfg.program, sr) = Some(hist.inst)
           /\ runner.res \in {NotCalled, Pending}

\* C20 witness: the loop with the empty body has a sibling behind it, which
\* Next would have moved to.
C20_Witness ==
    /\ EnteredEmptyBody
    /\ step_index(cfg.program, hist.pre.index.v).ret = "true"
    /\ runner.res = Pending

(***************************************************************************)
(* Properties of the parser.  What the parser must return is stated from   *)
(* the token types alone, by counting; none of it reads the parser.        *)
(***************************************************************************)
\* The token types of the stream, in order.
Types ==
    [i \in 1..Len(test_tokenizer.tokens) |->
        test_tokenizer.tokens[i].token.token_type]

Axis(tt) ==
    IF tt \in {"PInc", "PDec"} THEN "PAdd"
    ELSE IF tt \in {"DInc", "DDec"} THEN "DAdd" ELSE "none"

\* Token i is the first of a maximal run of tokens of one axis.
RunStart(i) ==
    Axis(Types[i]) # "none" /\ (i = 1 \/ Axis(Types[i - 1]) # Axis(Types[i]))

\* The last token of the maximal run that token i starts.
RunEnd(i) ==
    CHOOSE j \in i..Len(Types) :
        /\ \A k \in i..j : Axis(Types[k]) = Axis(Types[i])
        /\ j = Len(Types) \/ Axis(Types[j + 1]) # Axis(Types[i])

\* Increments minus decrements of the run i..j.
RunSum(i, j) ==
    Cardinality({k \in i..j : Types[k] \in {"PInc", "DInc"}})
        - Cardinality({k \in i..j : Types[k] \in {"PDec", "DDec"}})

Item(op, operand) == [op |-> op, operand |-> operand]

\* What tokens i.. must become, written flat: a loop is its LoopHead, its
\* body, its LoopTail.
RECURSIVE Folded(_, _)
Folded(i, fat) ==
    IF i > Len(Types) THEN <<>>
    ELSE (IF Axis(Types[i]) = "none" THEN <<Item(Types[i], 0)>>
          ELSE IF ~RunStart(i) THEN <<>>
          ELSE IF RunSum(i, RunEnd(i)) # 0
               THEN <<Item(Axis(Types[i]), RunSum(i, RunEnd(i)))>>
          ELSE IF fat THEN <<Item("Nop", 0)>> ELSE <<>>)
         \o Folded(i + 1, fat)

\* A parsed Program, written flat.
RECURSIVE Flat(_)
Flat(instructions) ==
    IF instructions = <<>> THEN <<>>
    ELSE LET i == Head(instructions)
         IN (IF i.op = "UntilZero"
             THEN <<Item("LoopHead", 0)>> \o Flat(i.sub) \o <<Item("LoopTail", 0)>>
             ELSE <<Item(i.op, i.operand)>>)
            \o Flat(Tail(instructions))

\* A parsed FatProgram, written flat.
RECURSIVE FlatFat(_)
FlatFat(instructions) ==
    IF instructions = <<>> THEN <<>>
    ELSE LET k == Head(instructions).kind
         IN (IF k.op = "UntilZero"
             THEN <<Item("LoopHead", 0)>> \o FlatFat(k.sub)
                      \o <<Item("LoopTail", 0)>>
             ELSE <<Item(k.op, k.operand)>>)
            \o FlatFat(Tail(instructions))

\* C3: parse_str turns each maximal run of PInc/PDec (DInc/DDec) tokens
\* into one PAdd (DAdd) of the increments minus the decrements, or into
\* nothing when that is 0, so no PAdd(0) or DAdd(0) is in a parsed Program
\* at any depth; parse_str_fat turns a run of sum 0 into one Nop.
C3_RunsFolded ==
    /\ parsed.res = ParseOk =>
        /\ Flat(parsed.instructions) = Folded(1, FALSE)
        /\ \A i \in DOMAIN Flat(parsed.instructions) :
              Flat(parsed.instructions)[i].op \in {"PAdd", "DAdd"}
                  => Flat(parsed.instructions)[i].operand # 0
    /\ parsed_fat.res = ParseOk =>
        FlatFat(parsed_fat.instructions) = Folded(1, TRUE)

\* C3 witness: the token stream of test_parse_str has been parsed both ways:
\* runs of three tokens became PAdd(-1) and DAdd(1), and the two runs of sum
\* 0 inside the loop are gone from the Program and are Nops in the
\* FatProgram.
C3_Witness ==
    /\ parsed.res = ParseOk
    /\ parsed.instructions = <<PAdd(-1), DAdd(1), UntilZero(<<Input, Output>>)>>
    /\ parsed_fat.res = ParseOk
    /\ Len(parsed_fat.instructions) = 3
    /\ LET sub == parsed_fat.instructions[3].kind.sub
       IN Len(sub) = 4 /\ sub[3].kind = Nop /\ sub[4].kind = Nop

\* Loops open after token i, if none was closed at top level before.
Depth(i) ==
    Cardinality({k \in 1..i : Types[k] = "LoopHead"})
        - Cardinality({k \in 1..i : Types[k] = "LoopTail"})

\* The LoopTail tokens that no open loop precedes.
StrayTails == {i \in DOMAIN Types : Types[i] = "LoopTail" /\ Depth(i - 1) = 0}

FirstStrayTail == CHOOSE i \in StrayTails : \A j \in StrayTails : i <= j

Calls == {r \in {parsed, parsed_fat} : r.res # ParseNotCalled}

Loops(flat) == Cardinality({i \in DOMAIN flat : flat[i].op = "LoopHead"})

\* C4: a LoopTail read at top level fails the parse (parse_str and
\* parse_str_fat) with UnexpectedEndOfLoop at that token's char position; a
\* LoopTail read in a loop ends that loop's body and is no error.
C4_LoopTailAtTopLevel ==
    /\ \A r \in Calls :
        IF StrayTails # {}
        THEN r.res = UnexpectedEndOfLoop(
                        test_tokenizer.tokens[FirstStrayTail].pos_in_chars)
        ELSE r.res.tag # "UnexpectedEndOfLoop"
    /\ parsed.res = ParseOk =>
        Loops(Flat(parsed.instructions))
            = Cardinality({i \in DOMAIN Types : Types[i] = "LoopTail"})
    /\ parsed_fat.res = ParseOk =>
        Loops(FlatFat(parsed_fat.instructions))
            = Cardinality({i \in DOMAIN Types : Types[i] = "LoopTail"})

\* C4 witness: both parsers have failed at a LoopTail that follows a closed
\* loop and is not the last token.
C4_Witness ==
    /\ parsed.res.tag = "UnexpectedEndOfLoop"
    /\ parsed_fat.res.tag = "UnexpectedEndOfLoop"
    /\ parsed.res.pos_in_chars > 4
    /\ FirstStrayTail < Len(Types)
    /\ Depth(FirstStrayTail - 1) = 0
    /\ \E i \in 1..FirstStrayTail - 1 : Types[i] = "LoopTail"

\* C5: where the stream ends with a loop still open, the parse (parse_str
\* and parse_str_fat) fails with UnexpectedEndOfFile at the position the
\* stream gives for its end, and only there; where it ends at top level the
\* parse returns Ok.
C5_EndOfStream ==
    \A r \in Calls :
        /\ StrayTails = {} =>
            IF Depth(Len(Types)) > 0
            THEN r.res = UnexpectedEndOfFile(test_tokenizer.last_pos_in_chars)
            ELSE r.res = ParseOk
        /\ r.res.tag = "UnexpectedEndOfFile" =>
            StrayTails = {} /\ Depth(Len(Types)) > 0

\* C5 witness: both parsers have failed at the end of a stream that leaves
\* two loops open after a run, and the position is not the token count.
C5_Witness ==
    /\ parsed.res.tag = "UnexpectedEndOfFile"
    /\ parsed_fat.res.tag = "UnexpectedEndOfFile"
    /\ Depth(Len(Types)) = 2
    /\ Types[Len(Types)] \in {"PInc", "DDec"}
    /\ parsed.res.pos_in_chars > Len(Types)

(***************************************************************************)
(* Properties of the simple tokenizer, stated on the chars of the source   *)
(* and the symbols of the token specification, not on the sorted table.    *)
(***************************************************************************)
\* The symbol the token specification gives a token type.
Symbol(tt) ==
    CASE tt = "PInc" -> token_spec.ptr_inc [] tt = "PDec" -> token_spec.ptr_dec
      [] tt = "DInc" -> token_spec.data_inc [] tt = "DDec" -> token_spec.data_dec
      [] tt = "Output" -> token_spec.output [] tt = "Input" -> token_spec.input
      [] tt = "LoopHead" -> token_spec.loop_head [] OTHER -> token_spec.loop_tail

\* The place of a token type in the order of construction.
ConstructionOrder ==
    <<"PInc", "PDec", "DInc", "DDec", "Output", "Input", "LoopHead", "LoopTail">>
Rank(tt) == CHOOSE i \in DOMAIN ConstructionOrder : ConstructionOrder[i] = tt

\* The token types whose symbol the source holds from its char q (counted
\* from 0) on.
Matching(q) ==
    {tt \in TokenType :
        /\ q + Len(Symbol(tt)) <= Len(simple_stream.source)
        /\ \A k \in 1..Len(Symbol(tt)) :
              simple_stream.source[q + k] = Symbol(tt)[k]}

\* The chars the last call of next scanned from, and the first of them at
\* which some symbol matches.
Scanned == emitted.before.pos_in_chars..(Len(simple_stream.source) - 1)
Hits == {q \in Scanned : Matching(q) # {}}
FirstHit == CHOOSE q \in Hits : \A r \in Hits : q <= r

\* The longest of the symbols matching at q, the earliest in the order of
\* construction among the longest.
Longest(q) ==
    CHOOSE tt \in Matching(q) :
        \A u \in Matching(q) :
            \/ Len(Symbol(tt)) > Len(Symbol(u))
            \/ Len(Symbol(tt)) = Len(Symbol(u)) /\ Rank(tt) <= Rank(u)

\* C10: where symbols match, next returns the token of the longest of the
\* symbols that match there, and of the one earliest in the order of
\* construction among the longest; the token is the whole symbol and the
\* stream goes on behind it.
C10_LongestMatch ==
    (emitted.called /\ Hits # {}) =>
        /\ emitted.info.token.some
        /\ emitted.info.token.token_type = Longest(FirstHit)
        /\ emitted.info.token.token_str = Symbol(Longest(FirstHit))
        /\ simple_stream.pos_in_chars = FirstHit + Len(Symbol(Longest(FirstHit)))

\* C10 witness: behind a skipped char, '+' (ptr_inc) and '++' (data_inc and
\* loop_tail) all match, and next has returned a DInc of two chars.
C10_Witness ==
    /\ emitted.called
    /\ Hits # {}
    /\ FirstHit > emitted.before.pos_in_chars
    /\ {"PInc", "DInc", "LoopTail"} \subseteq Matching(FirstHit)
    /\ Len(Symbol("PInc")) = 1
    /\ Len(Symbol("DInc")) = 2
    /\ Len(Symbol("LoopTail")) = 2
    /\ emitted.info.token.token_type = "DInc"
    /\ Len(emitted.info.token.token_str) = 2
\* The chars of the source from char q (counted from 0) on, n of them.
SourceAt(q, n) == SubSeq(simple_stream.source, q + 1, q + n)

\* C11: next returns the occurrences of symbols in the order of the source:
\* a token's pos_in_chars is the number of chars (not of bytes) before the
\* matched text, which is the first place from the cursor on where a symbol
\* occurs; its token_str is that text; where no symbol occurs in the rest,
\* next returns the end of the stream at the char count of the source.
C11_TokensInSourceOrder ==
    emitted.called =>
        IF Hits # {}
        THEN /\ emitted.info.token.some
             /\ emitted.info.pos_in_chars = FirstHit
             /\ emitted.info.token.token_str
                    = SourceAt(emitted.info.pos_in_chars,
                               Len(emitted.info.token.token_str))
             /\ emitted.info.token.token_str
                    = Symbol(emitted.info.token.token_type)
        ELSE /\ ~emitted.info.token.some
             /\ emitted.info.pos_in_chars = Len(simple_stream.source)
             /\ simple_stream.pos_in_chars = Len(simple_stream.source)
             /\ simple_stream.pos = str_len(simple_stream.source)

\* C11 witness: a second token was returned behind a skipped char, with a
\* char of three bytes before it, so the chars and the bytes before it
\* differ.
C11_Witness ==
    /\ emitted.called
    /\ emitted.info.token.some
    /\ emitted.before.pos_in_chars > 0
    /\ emitted.info.pos_in_chars > emitted.before.pos_in_chars
    /\ emitted.info.token.token_str # <<>>
    /\ str_len(SourceAt(0, emitted.info.pos_in_chars)) > emitted.info.pos_in_chars

(***************************************************************************)
(* Properties of the parser and the runtime together.                      *)
(***************************************************************************)
RECURSIVE HasNop(_)
HasNop(fat_instructions) ==
    \E i \in 1..Len(fat_instructions) :
        \/ fat_instructions[i].kind.op = "Nop"
        \/ HasNop(fat_instructions[i].kind.sub)

\* C12: if parse_str succeeds on a source, parse_str_fat succeeds on it, and
\* running as_program() of its FatProgram returns what running the Program of
\* parse_str returns, Ok or the same error, and has written the same bytes.
C12_FatRunsAlike ==
    (run_plain.res # NotCalled /\ run_fat.res # NotCalled /\ parsed.res = ParseOk) =>
        /\ parsed_fat.res = ParseOk
        /\ run_fat.res = run_plain.res
        /\ run_fat.rt.output.buf = run_plain.rt.output.buf

\* C12 witness: both programs ran; the FatProgram holds a Nop and a loop the
\* Program has no Nop for, a byte was written and the run ended in an error.
C12_Witness ==
    /\ run_plain.res \notin {NotCalled, NoProgram, Ok, Pending}
    /\ run_fat.res \notin {NotCalled, NoProgram}
    /\ HasNop(parsed_fat.instructions)
    /\ Len(parsed_fat.instructions) > Len(parsed.instructions)
    /\ run_plain.rt.output.buf # <<>>

(***************************************************************************)
(* Properties of Ook.  The Ook symbols of a source are counted and paired  *)
(* here from the text alone; none of it reads the tokenizer.               *)
(***************************************************************************)
OokSource == ook_stream.source

\* The chars where an Ook symbol starts: "Ook" with . ? or ! behind it.
OokAt ==
    {i \in 1..Len(OokSource) - 3 :
        /\ SubSeq(OokSource, i, i + 2) = <<79, 111, 107>>
        /\ OokSource[i + 3] \in {46, 63, 33}}

\* The k-th Ook symbol: the char it starts at (from 0) and its last char.
OokStart(k) == CHOOSE i \in OokAt : Cardinality({j \in OokAt : j < i}) = k - 1
OokSymbol(k) == OokSource[OokStart(k) + 3]

\* The pairs of symbols that are complete.
OokPairs == 1..(Cardinality(OokAt) \div 2)
IsBadPair(p) == OokSymbol(2 * p - 1) = 63 /\ OokSymbol(2 * p) = 63
IsLoopHead(p) == OokSymbol(2 * p - 1) = 33 /\ OokSymbol(2 * p) = 63
IsLoopTail(p) == OokSymbol(2 * p - 1) = 63 /\ OokSymbol(2 * p) = 33

\* The loops open before pair p, and the pairs that end the parse before the
\* end of the source: "Ook? Ook?", and a loop tail with no loop open.
OokDepth(p) ==
    Cardinality({q \in 1..(p - 1) : IsLoopHead(q)})
        - Cardinality({q \in 1..(p - 1) : IsLoopTail(q)})
EndsParse(p) == IsBadPair(p) \/ (IsLoopTail(p) /\ OokDepth(p) = 0)
OddOoks == Cardinality(OokAt) % 2 = 1

OddError == MiscError(Len(OokSource), "Odd number of Ook tokens")

\* C17 as stated: parsing a source with an odd number of Ook symbols fails
\* with MiscError("Odd number of Ook tokens") at the end of the input.
C17_OddOoksFail ==
    (OddOoks /\ parsed.res # ParseNotCalled) => parsed.res = OddError

\* C17: parsing a source with an odd number of Ook symbols fails.  Unless a
\* pair before the lone symbol ends the parse (an "Ook? Ook?" pair, or a loop
\* tail outside every loop), the error is MiscError("Odd number of Ook
\* tokens") at the char count of the source, the very error next returned;
\* otherwise it is the error of the first such pair, at that pair.
C17_OddOoksFailUnlessEarlier ==
    /\ \A r \in {parsed, parsed_fat} :
        (OddOoks /\ r.res # ParseNotCalled) =>
            /\ r.instructions = <<>>
            /\ IF \E p \in OokPairs : EndsParse(p)
               THEN LET p == CHOOSE q \in OokPairs :
                                /\ EndsParse(q)
                                /\ \A o \in OokPairs : EndsParse(o) => q <= o
                    IN r.res =
                        IF IsBadPair(p)
                        THEN MiscError(OokStart(2 * p - 1) - 1,
                                       "Ook? Ook?: bad Ook sequence")
                        ELSE UnexpectedEndOfLoop(OokStart(2 * p - 1) - 1)
               ELSE r.res = OddError
    /\ (ook_emitted.called /\ ook_emitted.res.tag = "MiscError"
            /\ ook_emitted.res.message = "Odd number of Ook tokens")
        => /\ OddOoks
           /\ ook_emitted.res = OddError

\* C17 witness: three Ook symbols behind a char of three bytes, the first two
\* a loop head; the parse failed inside the loop with the error next returns
\* at the end of the source.
C17_Witness ==
    /\ OddOoks
    /\ Cardinality(OokAt) = 3
    /\ IsLoopHead(1)
    /\ OokSource[1] = 65313
    /\ parsed.res = OddError
    /\ ook_emitted.called
    /\ ook_emitted.res = parsed.res

(***************************************************************************)
(* Properties of the regex tokenizer.                                      *)
(***************************************************************************)
\* The indices (from 0) of the patterns of the specification that do not
\* compile.
BadIndices == {i \in 0..(Len(regex_spec) - 1) : ~Regex_new(regex_spec[i + 1].re).ok}

\* C19: from_str_spec returns Err iff some pattern fails to compile, and the
\* Err lists the index of every such pattern, each once, in ascending order;
\* otherwise it returns Ok with one token definition for each pair, in order.
C19_AllBadPatternsReported ==
    regex_tokenizer.some =>
        LET r == regex_tokenizer.v IN
        /\ r.ok <=> BadIndices = {}
        /\ ~r.ok =>
            /\ {r.errors[k].index : k \in DOMAIN r.errors} = BadIndices
            /\ Len(r.errors) = Cardinality(BadIndices)
            /\ \A k \in 1..(Len(r.errors) - 1) :
                r.errors[k].index < r.errors[k + 1].index
        /\ r.ok =>
            /\ Len(r.token_defs) = Len(regex_spec)
            /\ \A k \in DOMAIN r.token_defs :
                r.token_defs[k].token_type = regex_spec[k].token_type
        /\ regex_spec = TEST_BAD_SPEC =>
            /\ ~r.ok
            /\ Len(r.errors) = 2
            /\ r.errors[1].index = 2
            /\ r.errors[2].index = 6
        /\ regex_spec = TEST_OK_SPEC => r.ok

\* C19 witness: two patterns failed to compile with one that compiles
\* between them, and both are reported.
C19_Witness ==
    /\ regex_tokenizer.some
    /\ ~regex_tokenizer.v.ok
    /\ Len(regex_tokenizer.v.errors) = 2
    /\ \E i \in 0..(Len(regex_spec) - 1) :
        /\ i \notin BadIndices
        /\ regex_tokenizer.v.errors[1].index < i
        /\ i < regex_tokenizer.v.errors[2].index

\* The stream the last call of next was made on, the chars behind its cursor,
\* and for each token definition the char of its leftmost match there
\* (counted from the cursor), if it has any.
RegexBefore == regex_emitted.before.v
RegexRest ==
    SubSeq(RegexBefore.source, RegexBefore.pos_in_chars + 1,
           Len(RegexBefore.source))
MatchStarts(i) ==
    {k \in 0..Len(RegexRest) :
        match_at(RegexBefore.token_defs[i].regex, RegexRest, k) # -1}
Matched == {i \in DOMAIN RegexBefore.token_defs : MatchStarts(i) # {}}
MatchStart(i) == CHOOSE k \in MatchStarts(i) : \A o \in MatchStarts(i) : k <= o
MatchEnd(i) == match_at(RegexBefore.token_defs[i].regex, RegexRest, MatchStart(i))

\* The definition that matches first, the first declared of several.
Winner ==
    CHOOSE i \in Matched :
        \A j \in Matched :
            \/ MatchStart(i) < MatchStart(j)
            \/ MatchStart(i) = MatchStart(j) /\ i <= j

\* C18: next returns the token of the pattern whose match starts first in the
\* text behind the cursor, the first declared of those that start there
\* whatever their lengths, at the char that match starts at and with its
\* text, and moves the cursor behind that match; when no pattern matches, it
\* returns the end of the stream at the char count of the source and moves
\* the cursor to the end.
C18_EarliestThenFirstDeclared ==
    regex_emitted.called =>
        LET before == RegexBefore
            after == regex_stream.v
            info == regex_emitted.info
        IN /\ regex_emitted.res = ParseOk
           /\ IF Matched # {}
              THEN /\ info.token.some
                   /\ info.token.token_type = before.token_defs[Winner].token_type
                   /\ info.pos_in_chars = before.pos_in_chars + MatchStart(Winner)
                   /\ info.token.token_str =
                        SubSeq(RegexRest, MatchStart(Winner) + 1, MatchEnd(Winner))
                   /\ after.pos_in_chars = before.pos_in_chars + MatchEnd(Winner)
                   /\ after.pos = str_len(SubSeq(before.source, 1, after.pos_in_chars))
              ELSE /\ ~info.token.some
                   /\ info.pos_in_chars = Len(before.source)
                   /\ after.pos_in_chars = Len(before.source)
                   /\ after.pos = str_len(before.source)

\* C18 witness: behind a skipped char of three bytes two patterns match at
\* the same char, and the one declared first has the shorter match.
C18_Witness ==
    /\ regex_emitted.called
    /\ regex_emitted.info.token.some
    /\ regex_emitted.info.pos_in_chars > RegexBefore.pos_in_chars
    /\ str_len(SubSeq(RegexBefore.source, 1, regex_emitted.info.pos_in_chars))
            > regex_emitted.info.pos_in_chars
    /\ \E j \in Matched :
        /\ j > Winner
        /\ MatchStart(j) = MatchStart(Winner)
        /\ MatchEnd(j) > MatchEnd(Winner)

(***************************************************************************)
(* SpecStreams: the three token streams.  A behaviour is one of SpecTok,   *)
(* of SpecRegex or of SpecOok, as far as the calls of next go.             *)
(***************************************************************************)
InitStreams == InitTok \/ InitRegex \/ InitOok

SimpleNext == live = "simple" /\ NextToken

NextStreams == SimpleNext \/ FromStrSpec \/ RegexTokenStream \/ RegexNext \/ OokNext

SpecStreams == InitStreams /\ [][NextStreams]_vars

(***************************************************************************)
(* Properties of the three token streams.                                  *)
(***************************************************************************)
\* C13: on each of the three streams, the pos_in_chars of a token or end of
\* stream that next returns is not less than the pos_in_chars of the one it
\* returned before.
C13_PositionsNeverDecrease ==
    [][/\ (emitted.called /\ emitted'.called)
            => emitted'.info.pos_in_chars >= emitted.info.pos_in_chars
       /\ (regex_emitted.any_ok /\ regex_emitted'.any_ok)
            => regex_emitted'.info.pos_in_chars >= regex_emitted.info.pos_in_chars
       /\ (ook_emitted.any_ok /\ ook_emitted'.any_ok)
            => ook_emitted'.info.pos_in_chars >= ook_emitted.info.pos_in_chars]_vars

\* C13 witness: a regex stream has returned a token behind a token it
\* returned before, with a char of three bytes among those before it.
C13_Witness ==
    /\ regex_emitted.called
    /\ regex_emitted.info.token.some
    /\ regex_emitted.before.v.pos_in_chars > 0
    /\ regex_emitted.info.pos_in_chars >= regex_emitted.before.v.pos_in_chars
    /\ regex_emitted.before.v.pos > regex_emitted.before.v.pos_in_chars

\* The chars Ook symbols start at behind the cursor the last call of next on
\* the Ook stream began at, in order.
OokAhead == {i \in OokAt : i - 1 >= ook_emitted.before.pos_in_chars}
OokAheadAt(k) == CHOOSE i \in OokAhead : Cardinality({j \in OokAhead : j < i}) = k - 1

\* C16 as stated: no call of next on a stream of a constructed tokenizer
\* returns an error.
C16_NextNeverFails ==
    /\ regex_emitted.called => regex_emitted.res = ParseOk
    /\ ook_emitted.called => ook_emitted.res = ParseOk

\* C16: next on a simple stream and on a regex stream never returns an
\* error, and from_str_spec fails only on a pattern that does not compile;
\* next on an Ook stream returns a MiscError when one Ook symbol alone is
\* left (at the char count of the source) and when the next two symbols are
\* "Ook? Ook?" (at the first of them), and Ok otherwise.
C16_OnlyOokNextFails ==
    /\ emitted.called
        => \/ emitted.info.token.some
           \/ emitted.info.pos_in_chars = Len(simple_stream.source)
    /\ regex_emitted.called => regex_emitted.res = ParseOk
    /\ (regex_tokenizer.some /\ ~regex_tokenizer.v.ok) => BadIndices # {}
    /\ ook_emitted.called =>
        ook_emitted.res =
            IF Cardinality(OokAhead) = 1
            THEN MiscError(Len(OokSource), "Odd number of Ook tokens")
            ELSE IF /\ Cardinality(OokAhead) >= 2
                    /\ OokSource[OokAheadAt(1) + 3] = 63
                    /\ OokSource[OokAheadAt(2) + 3] = 63
            THEN MiscError(OokAheadAt(1) - 1, "Ook? Ook?: bad Ook sequence")
            ELSE ParseOk

\* C16 witness: next on an Ook stream returned a token and then, on the
\* "Ook? Ook?" behind it, a MiscError.
C16_Witness ==
    /\ ook_emitted.called
    /\ ook_emitted.any_ok
    /\ ook_emitted.info.token.some
    /\ ook_emitted.res.tag = "MiscError"
    /\ ook_emitted.res.pos_in_chars > ook_emitted.info.pos_in_chars
    /\ ook_emitted.res.pos_in_chars < Len(OokSource)

(***************************************************************************)
(* Properties of the StepRunner's index.                                   *)
(***************************************************************************)
\* The path of the loop whose body holds the instruction at index.
Enclosing(index) == SubSeq(index, 1, Len(index) - 1)

\* The last call of step executed the last instruction of a loop body, and
\* exec_one returned Next: the instruction is no loop, or its cell is zero.
EndOfBody ==
    /\ Stepped
    /\ sres = Ok
    /\ Len(hist.pre.index.v) >= 2
    /\ step_index(cfg.program, hist.pre.index.v).ret = "false"
    /\ (hist.inst.op = "UntilZero"
            => Peek(hist.pre.runtime.memory, hist.pre.runtime.pointer) = 0)

\* The last call of step tested the head of a loop.
HeadTest == Stepped /\ sres = Ok /\ hist.inst.op = "UntilZero"

\* C21: after the last instruction of a loop body the index is the path of
\* the enclosing loop, whose head the next step tests; the index goes down
\* into a body only in a step that tested the head of that loop and found
\* its cell non-zero, and to the first instruction of the body; a head test
\* that finds zero leaves the index where Next leaves it, not in the body.
C21_LoopHeadRetested ==
    /\ EndOfBody
        => /\ sr.index = Some(Enclosing(hist.pre.index.v))
           /\ get_current_instruction(cfg.program, sr).v.op = "UntilZero"
    /\ (Stepped /\ sr.index.some /\ Len(sr.index.v) > Len(hist.pre.index.v))
        => /\ HeadTest
           /\ Peek(hist.pre.runtime.memory, hist.pre.runtime.pointer) # 0
           /\ sr.index.v = step_in(hist.pre.index.v)
    /\ (HeadTest /\ Peek(hist.pre.runtime.memory, hist.pre.runtime.pointer) = 0)
        => /\ sr.index = AfterNext(cfg.program, hist.pre.index.v)
           /\ sr.index.some => Len(sr.index.v) <= Len(hist.pre.index.v)

\* C21 witness: the body of a loop that has a sibling behind it has ended for
\* the second time at least, and the index is on the loop, not on the sibling.
C21_Witness ==
    /\ EndOfBody
    /\ sr.index = Some(Enclosing(hist.pre.index.v))
    /\ step_index(cfg.program, sr.index.v).ret = "true"
    /\ nsteps > 10

(***************************************************************************)
(* SpecIndex: Program::step_index.  A program and an index of one of its   *)
(* instructions are drawn in InitIndex, and step_index is called once.     *)
(***************************************************************************)
\* The indices of the instructions of a program: every element lies in its
\* instruction sequence, and every element but the last is at a loop.
RECURSIVE ValidIndices(_)
ValidIndices(instructions) ==
    UNION {{<<i - 1>>}
            \cup {<<i - 1>> \o tail : tail \in ValidIndices(instructions[i].sub)}
           : i \in DOMAIN instructions}

IndexPrograms == GeneratedPrograms \cup TestPrograms

InitIndex ==
    /\ RuntimeInit(IdleConfig)
    /\ ParserIdle
    /\ TokenizerIdle
    /\ FatIdle
    /\ StreamsIdle
    /\ \E p \in IndexPrograms : \E i \in ValidIndices(p) :
            index_call = IndexCall(p, i)

StepIndex ==
    /\ ~index_call.called
    /\ LET Returned(r) ==
            index_call' = [index_call EXCEPT !.called = TRUE,
                                             !.after = r.index, !.ret = r.ret]
       IN Returned(step_index(index_call.program, index_call.index))
    /\ UNCHANGED <<runtimeVars, parserVars, tokenizerVars, fatVars, streamVars>>

NextIndex == StepIndex

SpecIndex == InitIndex /\ [][NextIndex]_vars

\* The instruction sequence that holds the instruction at index: the program,
\* or the body of the loop at Enclosing(index).
Siblings(program, index) ==
    IF Len(index) = 1 THEN program
    ELSE instruction_at(program, Enclosing(index)).sub

\* C22: step_index on the index of an instruction moves across siblings only:
\* where the last element is not the last position of its instruction
\* sequence it is incremented and true is returned, else false is returned
\* and the index is unchanged; the length of the index and every element but
\* the last are unchanged, whatever the instruction at the index is.
C22_StepIndexAcrossSiblings ==
    index_call.called
        => LET index == index_call.index
               after == index_call.after
               last == index[Len(index)]
           IN /\ IF last + 1 < Len(Siblings(index_call.program, index))
                 THEN /\ index_call.ret = "true"
                      /\ after = [index EXCEPT ![Len(index)] = last + 1]
                 ELSE /\ index_call.ret = "false"
                      /\ after = index
              /\ Len(after) = Len(index)
              /\ Enclosing(after) = Enclosing(index)
              /\ after \in ValidIndices(index_call.program)

\* C22 witness: step_index was called on the last instruction of the body of
\* a loop that has a sibling behind it.
C22_Witness ==
    /\ index_call.called
    /\ Len(index_call.index) >= 2
    /\ index_call.ret = "false"
    /\ step_index(index_call.program, Enclosing(index_call.index)).ret = "true"

(***************************************************************************)
(* Properties of the tokens of a FatProgram.                               *)
(***************************************************************************)
\* The token lists of a sequence of instructions, one behind the other.
RECURSIVE TokensOf(_)
TokensOf(fat_instructions) ==
    IF fat_instructions = <<>> THEN <<>>
    ELSE Head(fat_instructions).tokens \o TokensOf(Tail(fat_instructions))

IsRun(fat_instruction) == fat_instruction.kind.op \in {"PAdd", "DAdd", "Nop"}

\* Increments minus decrements of a list of tokens.
TokenSum(tokens) ==
    Cardinality({k \in DOMAIN tokens : token_type(tokens[k]) \in {"PInc", "DInc"}})
        - Cardinality({k \in DOMAIN tokens :
                            token_type(tokens[k]) \in {"PDec", "DDec"}})

\* The tokens of a folded run: one token at least, all of one axis, the axis
\* of the instruction unless it is a Nop, and of the sum of its operand.
CarriesRun(kind, tokens) ==
    /\ tokens # <<>>
    /\ Axis(token_type(tokens[1])) # "none"
    /\ \A k \in DOMAIN tokens :
            Axis(token_type(tokens[k])) = Axis(token_type(tokens[1]))
    /\ kind.op # "Nop" => Axis(token_type(tokens[1])) = kind.op
    /\ TokenSum(tokens) = kind.operand

\* Every instruction of the sequence, at any depth, carries the tokens it was
\* made from, and no two runs of one axis lie side by side, so that a run
\* carries all its tokens.
RECURSIVE Carries(_)
Carries(fat_instructions) ==
    /\ \A i \in DOMAIN fat_instructions :
        LET kind == fat_instructions[i].kind
            tokens == fat_instructions[i].tokens
        IN CASE IsRun(fat_instructions[i]) -> CarriesRun(kind, tokens)
             [] kind.op \in {"Output", "Input"} ->
                    Len(tokens) = 1 /\ token_type(tokens[1]) = kind.op
             [] OTHER ->
                    /\ Len(tokens) >= 2
                    /\ token_type(tokens[1]) = "LoopHead"
                    /\ token_type(tokens[Len(tokens)]) = "LoopTail"
                    /\ SubSeq(tokens, 2, Len(tokens) - 1) = TokensOf(kind.sub)
                    /\ Carries(kind.sub)
    /\ \A i \in 1..(Len(fat_instructions) - 1) :
        (IsRun(fat_instructions[i]) /\ IsRun(fat_instructions[i + 1]))
            => Axis(token_type(fat_instructions[i].tokens[1]))
                # Axis(token_type(fat_instructions[i + 1].tokens[1]))

\* C23: in the FatProgram of parse_str_fat a folded run (PAdd, DAdd or Nop)
\* carries every token of the run, Output and Input carry their one token,
\* and a loop carries its LoopHead, the tokens of the instructions of its
\* body in order and its LoopTail; the token lists of the top-level
\* instructions, one behind the other, are the token stream.
C23_FatTokensAreTheStream ==
    parsed_fat.res = ParseOk
        => /\ Carries(parsed_fat.instructions)
           /\ TokensOf(parsed_fat.instructions) = test_tokenizer.tokens

\* C23 witness: the stream of test_parse_str_fat has been parsed: its loop
\* carries the eight tokens from [ to ], four of them in the two Nops of its
\* body.
C23_Witness ==
    /\ test_tokenizer = TEST_TOKENIZER
    /\ parsed_fat.res = ParseOk
    /\ Len(parsed_fat.instructions) = 3
    /\ Len(parsed_fat.instructions[3].tokens) = 8
    /\ Len(parsed_fat.instructions[3].kind.sub) = 4
    /\ parsed_fat.instructions[3].kind.sub[3].kind = Nop
    /\ Len(parsed_fat.instructions[3].kind.sub[3].tokens) = 2

(***************************************************************************)
(* Properties of the cursors of the simple token stream.                   *)
(***************************************************************************)
\* The last call of next returned a token.
Hit == emitted.called /\ emitted.info.token.some

\* C24 as stated: the position of a token is the char cursor of the stream
\* on entry to next.
C24_TokenAtEntryCursor ==
    Hit => emitted.info.pos_in_chars = emitted.before.pos_in_chars

\* C24: the position of a token is the char cursor on entry plus the number
\* of chars the call skipped: no symbol matches at the chars from the cursor
\* up to the position, and one matches at the position; it is the cursor on
\* entry iff a symbol matches there; behind the call the char cursor is the
\* position plus the chars of the symbol, and the byte cursor is the bytes
\* of the source up to there.
C24_TokenAtMatch ==
    Hit =>
        /\ emitted.info.pos_in_chars >= emitted.before.pos_in_chars
        /\ \A q \in emitted.before.pos_in_chars..(emitted.info.pos_in_chars - 1) :
                Matching(q) = {}
        /\ Matching(emitted.info.pos_in_chars) # {}
        /\ emitted.info.pos_in_chars = emitted.before.pos_in_chars
                <=> Matching(emitted.before.pos_in_chars) # {}
        /\ simple_stream.pos_in_chars
                = emitted.info.pos_in_chars + Len(emitted.info.token.token_str)
        /\ simple_stream.pos
                = str_len(SourceAt(0, simple_stream.pos_in_chars))
        /\ emitted.before.pos
                = str_len(SourceAt(0, emitted.before.pos_in_chars))

\* C24 witness: the second call of next skipped a char of three bytes and
\* returned a token of one char behind it.
C24_Witness ==
    /\ Hit
    /\ emitted.before.pos_in_chars > 0
    /\ emitted.info.pos_in_chars = emitted.before.pos_in_chars + 1
    /\ SourceAt(emitted.before.pos_in_chars, 1) = <<8594>>
    /\ Len(emitted.info.token.token_str) = 1
    /\ simple_stream.pos = emitted.before.pos + 4

(***************************************************************************)
(* Properties of the index of the StepRunner.                              *)
(***************************************************************************)
\* C25: the index of the StepRunner is absent or the index of an
\* instruction of the program (not empty, every element in its instruction
\* sequence, every element but the last at a loop), so neither
\* instruction_at nor step_index panics on it, and no call of step did.
C25_IndexValidOrAbsent ==
    /\ sres # Panic
    /\ sr.index.some =>
        /\ sr.index.v # <<>>
        /\ sr.index.v \in ValidIndices(cfg.program)
        /\ instruction_at(cfg.program, sr.index.v) # PanicInst
        /\ step_index(cfg.program, sr.index.v).ret # "panic"

\* C25 witness: a step failed on an instruction of a loop body, after steps
\* that went well, and the index is still there.
C25_Witness ==
    /\ Failed
    /\ nsteps > 2
    /\ sr.index.some
    /\ Len(sr.index.v) = 2
    /\ sr.index.v \in ValidIndices(cfg.program)

(***************************************************************************)
(* Properties of the assertions of the parser.                             *)
(***************************************************************************)
\* C26: no parse fails an assertion of the parser: unget_token_info always
\* finds the unget buffer empty, in parse_str and in parse_str_fat, a loop
\* body parse_internal_fat returned Ok for comes with its closing token, and
\* the top-level call of parse_internal_fat returns no closing token.
C26_ParserAssertionsHold ==
    /\ parsed.res # ParsePanic
    /\ parsed_fat.res # ParsePanic

\* C26 witness: both parsers returned a program whose first instruction is
\* a loop that ends with a run, which pushed back the closing token of the
\* loop, and whose last instruction is a run, which pushed back the end of
\* the stream.
C26_Witness ==
    /\ parsed.res = ParseOk
    /\ parsed_fat.res = ParseOk
    /\ Len(parsed.instructions) = 2
    /\ Len(parsed_fat.instructions) = 2
    /\ parsed.instructions[1].op = "UntilZero"
    /\ parsed.instructions[1].sub # <<>>
    /\ parsed.instructions[1].sub[Len(parsed.instructions[1].sub)].op
            \in {"PAdd", "DAdd"}
    /\ parsed.instructions[2].op \in {"PAdd", "DAdd"}
    /\ parsed_fat.instructions[1].kind.op = "UntilZero"
    /\ Len(parsed_fat.instructions[1].tokens) = 3
    /\ parsed_fat.instructions[2].kind.op \in {"PAdd", "DAdd"}

(***************************************************************************)
(* Properties of the finished StepRunner.                                  *)
(***************************************************************************)
\* The last call of step was made on a StepRunner without an index.
SteppedFinished == sres # NotCalled /\ ~hist.pre.index.some

\* C27: a call of step on a StepRunner without an index returns Ok and
\* leaves the StepRunner as it was, pointer, memory, input and output
\* included, so the index stays absent, is_running is false and
\* get_current_instruction returns None; before the first call of step the
\* index is absent if the program is empty and [0] otherwise.
C27_FinishedStaysFinished ==
    /\ SteppedFinished =>
        /\ sres = Ok
        /\ sr = hist.pre
        /\ ~is_running(sr)
        /\ get_current_instruction(cfg.program, sr) = None
    /\ sres = NotCalled =>
        /\ cfg.program = <<>> => ~is_running(sr)
        /\ cfg.program # <<>> => sr.index = Some(<<0>>)

\* C27 witness: a program that wrote output has run to its end in more
\* than three steps, and step was called once more.
C27_Witness ==
    /\ SteppedFinished
    /\ nsteps > 3
    /\ sr.runtime.output.buf # <<>>
    /\ sr.runtime.pointer # 0
    /\ ~is_running(sr)

(***************************************************************************)
(* Properties of the StepRunner after a failed step.                       *)
(***************************************************************************)
\* C28: after a call of step that returned a RuntimeError the index and the
\* pointer are those before the call and is_running is true, so the
\* instruction to be executed is the instruction that failed.
C28_FailedStepStays ==
    Failed =>
        /\ sr.index = hist.pre.index
        /\ sr.runtime.pointer = hist.pre.runtime.pointer
        /\ is_running(sr)
        /\ get_current_instruction(cfg.program, sr) = Some(hist.inst)
        /\ instruction_at(cfg.program, sr.index.v) # PanicInst

\* C28 witness: an Input in a loop body failed at the end of the input,
\* after steps that went well, and the next step is that Input again.
C28_Witness ==
    /\ Failed
    /\ sres.tag = "Eof"
    /\ hist.inst = Input
    /\ Len(sr.index.v) = 2
    /\ nsteps >= 2
    /\ get_current_instruction(cfg.program, sr) = Some(Input)

(***************************************************************************)
(* Properties of the cells of the memory.                                  *)
(***************************************************************************)
\* The addresses of the cells that do not read 0.
NonZero(memory) ==
    DOMAIN memory.right_data.nz
    \cup {0 - (i + 1) : i \in DOMAIN memory.left_data.nz}

\* The addresses where two memories may differ: every other cell reads 0 in
\* both.
Differing(before, after) ==
    {a \in NonZero(before) \cup NonZero(after) : Peek(before, a) # Peek(after, a)}

\* C29: a step changes the value of no cell but the cell at the pointer, and
\* of that cell only by a DAdd or an Input that returned Ok: PAdd, Output
\* and the test of a loop, and every failed step, leave every cell as it
\* reads, whatever the policy and whether or not the step made a vector
\* grow; before the first step every cell reads 0.
C29_CellsIndependent ==
    /\ sres = NotCalled => NonZero(sr.runtime.memory) = {}
    /\ Stepped =>
        /\ Differing(hist.pre.runtime.memory, sr.runtime.memory)
                \subseteq {hist.pre.runtime.pointer}
        /\ Differing(hist.pre.runtime.memory, sr.runtime.memory) # {}
                => hist.inst.op \in {"DAdd", "Input"} /\ sres = Ok

\* C29 witness: under BothInfinite a DAdd at -1 made the left vector grow
\* and wrote its first cell, while the cell at 0 kept the value written
\* before.
C29_Witness ==
    /\ Stepped
    /\ sres = Ok
    /\ hist.inst.op = "DAdd"
    /\ cfg.memsize = BothInfinite
    /\ hist.pre.runtime.pointer = -1
    /\ hist.pre.runtime.memory.left_data.len = 0
    /\ sr.runtime.memory.left_data.len = 1
    /\ Peek(sr.runtime.memory, -1) # 0
    /\ Peek(sr.runtime.memory, 0) # 0
    /\ Peek(sr.runtime.memory, 0) = Peek(hist.pre.runtime.memory, 0)

(***************************************************************************)
(* Properties of the end of the simple token stream.                       *)
(***************************************************************************)
\* The instructions of a program, those of the loop bodies included.
RECURSIVE InstructionCount(_)
InstructionCount(instructions) ==
    IF instructions = <<>> THEN 0
    ELSE 1 + InstructionCount(Head(instructions).sub)
           + InstructionCount(Tail(instructions))

\* The last call of next returned the end of the stream.
AtEnd == emitted.called /\ ~emitted.info.token.some

\* Where every symbol is non-empty: a call of next that returns a token
\* leaves both cursors further on than it found them, and no further than
\* the end of the source; the tokens returned are never more than the chars
\* of the source; parse_str returns, with a program of no more instructions
\* than the source has chars or with one of its two errors.
Advancing ==
    NonEmptySymbols(token_spec) =>
        /\ Hit => /\ simple_stream.pos_in_chars > emitted.before.pos_in_chars
                  /\ simple_stream.pos > emitted.before.pos
        /\ simple_stream.pos_in_chars <= Len(simple_stream.source)
        /\ emitted.count <= Len(simple_stream.source)
        /\ parsed.res # ParseNotCalled =>
            /\ parsed.res.tag
                 \in {"Ok", "UnexpectedEndOfLoop", "UnexpectedEndOfFile"}
            /\ InstructionCount(parsed.instructions) <= Len(simple_stream.source)

\* A call of next that follows one that returned the end of the stream
\* returns the end of the stream at the same position and leaves the
\* stream as it is.
EndRepeats ==
    (AtEnd /\ emitted'.before = simple_stream)
        => /\ emitted'.info = emitted.info
           /\ simple_stream' = simple_stream

\* C30: with non-empty symbols every token moves the cursor on by a char at
\* least, so the end of the stream comes after no more tokens than the
\* source has chars; from then on every call of next returns the end of the
\* stream at the same position; parse_str returns.
C30_SimpleStreamEnds == []Advancing /\ [][EndRepeats]_vars

\* C30 witness: a source of two chars or more gave a token for each of its
\* chars, next has returned the end of the stream on a stream that was at
\* its end already, and parse_str has returned a program.
C30_Witness ==
    /\ NonEmptySymbols(token_spec)
    /\ Len(simple_stream.source) >= 2
    /\ emitted.count = Len(simple_stream.source)
    /\ AtEnd
    /\ emitted.before = simple_stream
    /\ emitted.info.pos_in_chars = Len(simple_stream.source)
    /\ parsed.res = ParseOk
    /\ parsed.instructions # <<>>

====
